---- MODULE Spec2Model ----
(***************************************************************************)
(* A model of the Ry bytecode interpreter: the single-pass compiler        *)
(* (middleend/src/compiler.cpp) and the stack VM (vm/src/vm.cpp).          *)
(*                                                                         *)
(* Conventions.  Offsets into code, the constant pool, the value stack and *)
(* the frame array are 0-based as in the C++ source; TLA+ sequences are    *)
(* 1-based, so element i of an array a is a[i + 1].  Numbers are modelled  *)
(* by integers (the scripts of the model only compute integral values).    *)
(***************************************************************************)
EXTENDS Integers, Sequences, FiniteSets, TLC

(***************************************************************************)
(* Values (misc/include/value.h)                                           *)
(***************************************************************************)
Nil == [kind |-> "nil"]
BoolV(b) == [kind |-> "bool", b |-> b]
NumV(n) == [kind |-> "number", n |-> n]
StrV(s) == [kind |-> "string", s |-> s]
RangeV(a, b) == [kind |-> "range", start |-> a, end |-> b]
FunctionV(f) == [kind |-> "function", fn |-> f]
ClosureV(f, ups) == [kind |-> "closure", fn |-> f, ups |-> ups]
NativeV(name, arity) == [kind |-> "native", name |-> name, arity |-> arity]
ListV(ref) == [kind |-> "list", ref |-> ref]
MapV(ref) == [kind |-> "map", ref |-> ref]
ClassV(ref) == [kind |-> "class", ref |-> ref]
InstanceV(ref) == [kind |-> "instance", ref |-> ref]
BoundMethodV(receiver, method) ==
    [kind |-> "bound", receiver |-> receiver, method |-> method]

(***************************************************************************)
(* Opcodes, in the order of enum OpCode                                    *)
(***************************************************************************)
OpCode ==
    << "OP_CONSTANT", "OP_NULL", "OP_TRUE", "OP_FALSE", "OP_POP",
       "OP_DEFINE_GLOBAL", "OP_GET_GLOBAL", "OP_SET_GLOBAL", "OP_GET_LOCAL",
       "OP_SET_LOCAL", "OP_GET_PROPERTY", "OP_SET_PROPERTY", "OP_CLOSURE",
       "OP_GET_UPVALUE", "OP_SET_UPVALUE",
       "OP_ADD", "OP_SUBTRACT", "OP_MULTIPLY", "OP_DIVIDE", "OP_MODULO",
       "OP_NEGATE", "OP_GROUPING", "OP_CLOSE_GROUPING", "OP_BUILD_RANGE_LIST",
       "OP_BUILD_LIST", "OP_GET_INDEX", "OP_SET_INDEX", "OP_BITWISE_OR",
       "OP_BITWISE_XOR", "OP_BITWISE_AND", "OP_LEFT_SHIFT", "OP_RIGHT_SHIFT",
       "OP_COPY", "OP_BUILD_MAP",
       "OP_EQUAL", "OP_GREATER", "OP_LESS", "OP_NOT",
       "OP_JUMP", "OP_JUMP_IF_FALSE", "OP_LOOP", "OP_FOR_EACH_NEXT",
       "OP_CALL", "OP_CLASS", "OP_METHOD", "OP_INHERIT", "OP_PANIC",
       "OP_RETURN", "OP_FUNCTION", "OP_ATTEMPT", "OP_END_ATTEMPT",
       "OP_IMPORT" >>

\* The byte of an opcode: its position in the enumeration.
Op(name) == (CHOOSE i \in 1..Len(OpCode) : OpCode[i] = name) - 1

(***************************************************************************)
(* AST nodes handed to the compiler (the fields the visitors read)         *)
(***************************************************************************)
NoNode == [t |-> "none"]
Num(n) == [t |-> "Value", type |-> "NUMBER", num |-> n]
Str(s) == [t |-> "Value", type |-> "STRING", lexeme |-> s]
Null == [t |-> "Value", type |-> "NULL_TOKEN"]
True == [t |-> "Value", type |-> "TRUE"]
False == [t |-> "Value", type |-> "FALSE"]
Prefix(prefix, right) == [t |-> "Prefix", prefix |-> prefix, right |-> right]
Var(name) == [t |-> "Variable", name |-> name]
Assign(name, value) == [t |-> "Assign", name |-> name, value |-> value]
Postfix(left, postfix) == [t |-> "Postfix", left |-> left, postfix |-> postfix]
Math(op, left, right) == [t |-> "Math", op |-> op, left |-> left, right |-> right]
Call(callee, arguments) == [t |-> "Call", callee |-> callee, arguments |-> arguments]
Get(object, name) == [t |-> "Get", object |-> object, name |-> name]
Set(object, name, value) ==
    [t |-> "Set", object |-> object, name |-> name, value |-> value]
This == [t |-> "This"]
List(elements) == [t |-> "List", elements |-> elements]
Map(items) == [t |-> "Map", items |-> items]
Range(leftBound, rightBound) ==
    [t |-> "Range", leftBound |-> leftBound, rightBound |-> rightBound]
Index(object, index) == [t |-> "Index", object |-> object, index |-> index]
IndexSet(object, index, value) ==
    [t |-> "IndexSet", object |-> object, index |-> index, value |-> value]

ExpressionStmt(expression) == [t |-> "Expression", expression |-> expression]
VarStmt(name, initializer) ==
    [t |-> "Var", name |-> name, initializer |-> initializer]
BlockStmt(statements) == [t |-> "Block", statements |-> statements]
FunctionStmt(name, parameters, body) ==
    [t |-> "Function", name |-> name, parameters |-> parameters, body |-> body]
ReturnStmt(value) == [t |-> "Return", value |-> value]
ClassStmt(name, superclass, methods) ==
    [t |-> "Class", name |-> name, superclass |-> superclass, methods |-> methods]
PanicStmt(message) == [t |-> "Panic", message |-> message]
ImportStmt(module) == [t |-> "Import", module |-> module]
NamespaceStmt(name, body) == [t |-> "Namespace", name |-> name, body |-> body]
AttemptStmt(attemptBody, error, failBody) ==
    [t |-> "Attempt", attemptBody |-> attemptBody, error |-> error,
     failBody |-> failBody]
EachStmt(id, collection, body) ==
    [t |-> "Each", id |-> id, collection |-> collection, body |-> body]
StopStmt == [t |-> "Stop"]
SkipStmt == [t |-> "Skip"]
IfStmt(condition, thenBranch, elseBranch) ==
    [t |-> "If", condition |-> condition, thenBranch |-> thenBranch,
     elseBranch |-> elseBranch]
WhileStmt(condition, body) ==
    [t |-> "While", condition |-> condition, body |-> body]
ForStmt(init, condition, increment, body) ==
    [t |-> "For", init |-> init, condition |-> condition,
     increment |-> increment, body |-> body]

(***************************************************************************)
(* Compiler (middleend/src/compiler.cpp)                                   *)
(*                                                                         *)
(* A compiler state cs is the chain of Compiler objects linked by          *)
(* `enclosing` (cs.acts, innermost last) and the shared flag               *)
(* RyTools::hadError.                                                      *)
(***************************************************************************)
\* `ends` is history: for every statement compiled, the offset its code ends
\* at and the number of locals in scope there.
\* What the uninitialized currentLine and currentColumn of a compiler may hold.
Indeterminate == {-1, 1}
Junk == [line : Indeterminate, column : Indeterminate]

\* currentLine and currentColumn have no initializer: a new compiler holds
\* whatever `junk` its memory held.
NewCompiler(classDepth, junk) ==
    [code |-> <<>>, lines |-> <<>>, columns |-> <<>>,
     constants |-> <<>>, locals |-> <<>>, upvalues |-> <<>>,
     scopeDepth |-> 0, loopStack |-> <<>>, currentClass |-> classDepth,
     currentLine |-> junk.line, currentColumn |-> junk.column,
     currentNamespace |-> "",
     ends |-> {}, operands |-> {}]

Cur(cs) == cs.acts[Len(cs.acts)]
SetCur(cs, a) == [cs EXCEPT !.acts[Len(cs.acts)] = a]

\* The position of a token: the lexer starts at line 1, column 1 and never
\* counts below that. Every token of the scripts is taken to be there.
TokenPosition == [line |-> 1, column |-> 1]
track(cs) ==
    SetCur(cs, [Cur(cs) EXCEPT !.currentLine = TokenPosition.line,
                               !.currentColumn = TokenPosition.column])

\* A visitor that begins with track(token).
tracked(visit(_, _), cs, node) == visit(track(cs), node)

\* body(value): the value is computed once and named by the parameter of body.
With(value, body(_)) == body(value)

\* Chunk::write(byte, currentLine, currentColumn)
emitByte(cs, byte) ==
    SetCur(cs, [Cur(cs) EXCEPT !.code = Append(@, byte),
                               !.lines = Append(@, Cur(cs).currentLine),
                               !.columns = Append(@, Cur(cs).currentColumn)])
emitBytes(cs, byte1, byte2) == emitByte(emitByte(cs, byte1), byte2)

\* The largest index an operand of one byte can hold.
UINT8_MAX == 255

\* Chunk::addConstant appends and returns the index; makeConstant(cs) is what
\* Compiler::makeConstant returns for the constant it adds to cs: 0 for an
\* index above 255.
addConstant(cs, value) ==
    SetCur(cs, [Cur(cs) EXCEPT !.constants = Append(@, value)])
makeConstant(cs) ==
    IF Len(Cur(cs).constants) > UINT8_MAX THEN 0 ELSE Len(Cur(cs).constants)

\* History: the byte just emitted is the operand created for `value`.
operandFor(cs, value) ==
    SetCur(cs, [Cur(cs) EXCEPT !.operands =
                    @ \cup {[offset |-> Len(Cur(cs).code) - 1, value |-> value]}])

\* emitBytes(op, (uint8_t) makeConstant(value))
emitWithConstant(cs, op, value) ==
    operandFor(emitBytes(addConstant(cs, value), Op(op), makeConstant(cs)), value)
emitConstant(cs, value) == emitWithConstant(cs, "OP_CONSTANT", value)

CodeSize(cs) == Len(Cur(cs).code)

\* emitJump returns code.size() - 2, the offset of the operand.
emitJump(cs, instruction) ==
    emitByte(emitByte(emitByte(cs, Op(instruction)), 255), 255)
JumpOperand(cs) == CodeSize(cs) - 2

patchJump(cs, offset) ==
    LET jump == CodeSize(cs) - offset - 2
    IN  SetCur(cs, [Cur(cs) EXCEPT !.code[offset + 1] = (jump \div 256) % 256,
                                   !.code[offset + 2] = jump % 256])

emitLoop(cs, loopStart) ==
    LET c1 == emitByte(cs, Op("OP_LOOP"))
        offset == CodeSize(c1) - loopStart + 2
    IN  emitByte(emitByte(c1, (offset \div 256) % 256), offset % 256)

beginScope(cs) == SetCur(cs, [Cur(cs) EXCEPT !.scopeDepth = @ + 1])

RECURSIVE PopLocals(_, _)
PopLocals(cs, depth) ==
    LET a == Cur(cs)
    IN  IF a.locals # <<>> /\ a.locals[Len(a.locals)].depth > depth
        THEN PopLocals(
                 emitByte(SetCur(cs, [a EXCEPT !.locals = SubSeq(@, 1, Len(@) - 1)]),
                          Op("OP_POP")),
                 depth)
        ELSE cs
endScope(cs) ==
    LET c1 == SetCur(cs, [Cur(cs) EXCEPT !.scopeDepth = @ - 1])
    IN  PopLocals(c1, Cur(c1).scopeDepth)

addLocal(cs, name) ==
    SetCur(cs, [Cur(cs) EXCEPT
                  !.locals = Append(@, [name |-> name, depth |-> Cur(cs).scopeDepth])])

\* Index of the last local with that name, or -1.
resolveLocal(a, name) ==
    LET hits == {i \in 1..Len(a.locals) : a.locals[i].name = name}
    IN  IF hits = {} THEN -1
        ELSE (CHOOSE i \in hits : \A j \in hits : j <= i) - 1

addUpvalue(cs, level, index, isLocal) ==
    LET ups == cs.acts[level].upvalues
        hits == {i \in 1..Len(ups) : ups[i].index = index /\ ups[i].isLocal = isLocal}
    IN  IF hits # {}
        THEN [cs |-> cs, arg |-> (CHOOSE i \in hits : \A j \in hits : i <= j) - 1]
        ELSE IF Len(ups) = 256
        THEN [cs |-> [cs EXCEPT !.hadError = TRUE, !.reported = TRUE], arg |-> 0]
        ELSE [cs |-> [cs EXCEPT !.acts[level].upvalues =
                                  Append(@, [index |-> index, isLocal |-> isLocal])],
              arg |-> Len(ups)]

RECURSIVE resolveUpvalue(_, _, _)
resolveUpvalue(cs, level, name) ==
    IF level = 1
    THEN [cs |-> cs, arg |-> -1]
    ELSE LET local == resolveLocal(cs.acts[level - 1], name)
         IN  IF local # -1
             THEN addUpvalue(cs, level, local, TRUE)
             ELSE LET up == resolveUpvalue(cs, level - 1, name)
                  IN  IF up.arg # -1
                      THEN addUpvalue(up.cs, level, up.arg, FALSE)
                      ELSE [cs |-> up.cs, arg |-> -1]

\* RyTools::report and RyTools::hadError = true; `reported` remembers that
\* an error was shown to the user.
error(cs) == [cs EXCEPT !.hadError = TRUE, !.reported = TRUE]

RECURSIVE compileStatement(_, _), compileExpression(_, _)
RECURSIVE compileStatements(_, _), compileExpressions(_, _)

\* cs.acts is never empty: the test makes TLC evaluate cs before it goes on
\* to the next statement, which keeps the evaluation shallow. The visitors of
\* the statements that hold statements do the same with their body.
compileStatements(cs, stmts) ==
    IF stmts = <<>> \/ cs.acts = <<>> THEN cs
    ELSE compileStatements(compileStatement(cs, Head(stmts)), Tail(stmts))

compileExpressions(cs, exprs) ==
    IF exprs = <<>> \/ cs.acts = <<>> THEN cs
    ELSE compileExpressions(compileExpression(cs, Head(exprs)), Tail(exprs))

MathOps(op) ==
    CASE op = "PLUS" -> <<Op("OP_ADD")>>
      [] op = "MINUS" -> <<Op("OP_SUBTRACT")>>
      [] op = "STAR" -> <<Op("OP_MULTIPLY")>>
      [] op = "DIVIDE" -> <<Op("OP_DIVIDE")>>
      [] op = "PERCENT" -> <<Op("OP_MODULO")>>
      [] op = "EQUAL_EQUAL" -> <<Op("OP_EQUAL")>>
      [] op = "BANG_EQUAL" -> <<Op("OP_EQUAL"), Op("OP_NOT")>>
      [] op = "GREATER" -> <<Op("OP_GREATER")>>
      [] op = "GREATER_EQUAL" -> <<Op("OP_LESS"), Op("OP_NOT")>>
      [] op = "LESS" -> <<Op("OP_LESS")>>
      [] op = "LESS_EQUAL" -> <<Op("OP_GREATER"), Op("OP_NOT")>>
      [] OTHER -> <<>>

RECURSIVE emitAll(_, _)
emitAll(cs, bytes) ==
    IF bytes = <<>> THEN cs ELSE emitAll(emitByte(cs, Head(bytes)), Tail(bytes))

visitMath(cs, expr) ==
    emitAll(compileExpression(compileExpression(cs, expr.left), expr.right),
            MathOps(expr.op))

\* The names the scripts use that hold "::", and those that begin with
\* "native".
Scoped == {"ns::g"}
NativePrefixed == {"nativeTime"}
hasScope(name) == name \in Scoped
startsWithNative(name) == name \in NativePrefixed

\* The names the Compiler constructor puts into nativeNames.
getNativeNames == {"out", "input", "clock", "clear", "exit", "type", "use"}

\* The key of the global a read of `name` uses.
readKey(cs, name) ==
    IF hasScope(name) THEN name
    ELSE IF /\ Cur(cs).currentNamespace # ""
            /\ name \notin getNativeNames
            /\ ~startsWithNative(name)
    THEN Cur(cs).currentNamespace \o "::" \o name
    ELSE name

\* The key of the global an assignment to `name` uses.
assignKey(cs, name) ==
    IF hasScope(name) THEN name
    ELSE IF Cur(cs).currentNamespace # ""
    THEN Cur(cs).currentNamespace \o "::" \o name
    ELSE name

visitVariable(cs, expr) ==
    LET arg == resolveLocal(Cur(cs), expr.name)
        up == resolveUpvalue(cs, Len(cs.acts), expr.name)
    IN  IF arg # -1 THEN emitBytes(cs, Op("OP_GET_LOCAL"), arg)
        ELSE IF up.arg # -1 THEN emitBytes(up.cs, Op("OP_GET_UPVALUE"), up.arg)
        ELSE emitWithConstant(up.cs, "OP_GET_GLOBAL", StrV(readKey(cs, expr.name)))

visitValue(cs, expr) ==
    CASE expr.type = "TRUE" -> emitByte(cs, Op("OP_TRUE"))
      [] expr.type = "FALSE" -> emitByte(cs, Op("OP_FALSE"))
      [] expr.type = "NULL_TOKEN" -> emitByte(cs, Op("OP_NULL"))
      [] expr.type = "NUMBER" -> emitConstant(cs, NumV(expr.num))
      [] expr.type = "STRING" -> emitConstant(cs, StrV(expr.lexeme))
      [] OTHER -> cs

visitPrefix(cs, expr) ==
    IF expr.prefix = "MINUS"
    THEN emitByte(compileExpression(cs, expr.right), Op("OP_NEGATE"))
    ELSE IF expr.prefix = "BANG"
    THEN emitByte(compileExpression(cs, expr.right), Op("OP_NOT"))
    ELSE compileExpression(cs, expr.right)

visitRange(cs, expr) ==
    emitByte(compileExpression(compileExpression(cs, expr.leftBound), expr.rightBound),
             Op("OP_BUILD_RANGE_LIST"))

visitList(cs, expr) ==
    emitBytes(compileExpressions(cs, expr.elements),
              Op("OP_BUILD_LIST"), Len(expr.elements) % 256)

visitAssign(cs, expr) ==
    LET c1 == compileExpression(cs, expr.value)
        arg == resolveLocal(Cur(c1), expr.name)
        up == resolveUpvalue(c1, Len(c1.acts), expr.name)
    IN  IF arg # -1 THEN emitBytes(c1, Op("OP_SET_LOCAL"), arg)
        ELSE IF up.arg # -1 THEN emitBytes(up.cs, Op("OP_SET_UPVALUE"), up.arg)
        ELSE emitWithConstant(up.cs, "OP_SET_GLOBAL", StrV(assignKey(c1, expr.name)))

\* Only a variable on the left emits code: the value, a copy, 1, the sum or
\* difference, and the store.
visitPostfix(cs, expr) ==
    IF expr.left.t # "Variable" THEN cs
    ELSE LET name == expr.left.name
             arg == resolveLocal(Cur(cs), name)
             c1 == IF arg # -1 THEN emitBytes(cs, Op("OP_GET_LOCAL"), arg)
                   ELSE emitWithConstant(cs, "OP_GET_GLOBAL", StrV(name))
             c2 == emitByte(emitConstant(emitByte(c1, Op("OP_COPY")), NumV(1)),
                            IF expr.postfix = "PLUS_PLUS" THEN Op("OP_ADD")
                            ELSE Op("OP_SUBTRACT"))
         IN  IF arg # -1 THEN emitBytes(c2, Op("OP_SET_LOCAL"), arg)
             ELSE emitWithConstant(c2, "OP_SET_GLOBAL", StrV(name))

visitCall(cs, expr) ==
    emitBytes(compileExpressions(compileExpression(cs, expr.callee), expr.arguments),
              Op("OP_CALL"), Len(expr.arguments) % 256)

visitExpressionStmt(cs, stmt) ==
    With(compileExpression(cs, stmt.expression), LAMBDA c1 :
        IF stmt.expression.t \in {"Assign", "IndexSet"} THEN c1
        ELSE emitByte(c1, Op("OP_POP")))

visitBlockStmt(cs, stmt) ==
    endScope(compileStatements(beginScope(cs), stmt.statements))

visitVarStmt(cs, stmt) ==
    With(IF stmt.initializer # NoNode
         THEN compileExpression(cs, stmt.initializer)
         ELSE emitByte(cs, Op("OP_NULL")), LAMBDA c1 :
        IF Cur(c1).scopeDepth > 0 THEN addLocal(c1, stmt.name)
        ELSE emitWithConstant(c1, "OP_DEFINE_GLOBAL", StrV(stmt.name)))

visitReturnStmt(cs, stmt) ==
    emitByte(IF stmt.value # NoNode THEN compileExpression(cs, stmt.value)
             ELSE emitByte(cs, Op("OP_NULL")),
             Op("OP_RETURN"))

visitPanicStmt(cs, stmt) ==
    emitByte(IF stmt.message # NoNode THEN compileExpression(cs, stmt.message)
             ELSE emitByte(cs, Op("OP_NULL")),
             Op("OP_PANIC"))

visitImportStmt(cs, stmt) ==
    emitByte(emitByte(compileExpression(cs, stmt.module), Op("OP_IMPORT")),
             Op("OP_POP"))

\* currentNamespace is the name while the body is compiled.
visitNamespaceStmt(cs, stmt) ==
    With(compileStatements(
             SetCur(cs, [Cur(cs) EXCEPT !.currentNamespace = stmt.name]), stmt.body),
         LAMBDA c1 :
        SetCur(c1, [Cur(c1) EXCEPT
                      !.currentNamespace = Cur(cs).currentNamespace]))

visitThis(cs, expr) ==
    IF Cur(cs).currentClass = 0 THEN error(cs)
    ELSE emitBytes(track(cs), Op("OP_GET_LOCAL"), 0)

visitGet(cs, expr) ==
    emitWithConstant(compileExpression(cs, expr.object),
                     "OP_GET_PROPERTY", StrV(expr.name))

visitSet(cs, expr) ==
    emitWithConstant(compileExpression(compileExpression(cs, expr.object), expr.value),
                     "OP_SET_PROPERTY", StrV(expr.name))

\* An item is the pair <<key, value>>.
RECURSIVE compileItems(_, _)
compileItems(cs, items) ==
    IF items = <<>> THEN cs
    ELSE compileItems(compileExpression(compileExpression(cs, Head(items)[1]),
                                        Head(items)[2]),
                      Tail(items))
visitMap(cs, expr) ==
    emitBytes(compileItems(cs, expr.items), Op("OP_BUILD_MAP"), Len(expr.items) % 256)

visitIndexSet(cs, expr) ==
    emitByte(compileExpression(
                 compileExpression(compileExpression(cs, expr.object), expr.index),
                 expr.value),
             Op("OP_SET_INDEX"))

visitIndex(cs, expr) ==
    emitByte(compileExpression(compileExpression(cs, expr.object), expr.index),
             Op("OP_GET_INDEX"))

RECURSIVE addLocals(_, _)
addLocals(cs, names) ==
    IF names = <<>> THEN cs ELSE addLocals(addLocal(cs, Head(names)), Tail(names))

RECURSIVE emitUpvalues(_, _)
emitUpvalues(cs, ups) ==
    IF ups = <<>> THEN cs
    ELSE emitUpvalues(emitByte(emitByte(cs, IF Head(ups).isLocal THEN 1 ELSE 0),
                               Head(ups).index),
                      Tail(ups))

\* The body of a function or method in a sub-compiler whose slot 0 is named
\* slot0: the chain with the sub-compiler still on top.
\* The constructor of the sub-compiler clears RyTools::hadError.
SubCompiler(cs, classDepth) ==
    [cs EXCEPT !.acts = Append(@, NewCompiler(classDepth, cs.junk)),
               !.hadError = FALSE]
compileBody(cs, classDepth, slot0, stmt) ==
    endScope(emitByte(emitByte(
        compileStatements(
            addLocals(addLocal(beginScope(SubCompiler(cs, classDepth)), slot0),
                      stmt.parameters),
            stmt.body),
        Op("OP_NULL")), Op("OP_RETURN")))

\* `pairs` is history: the number of (isLocal, index) pairs emitted after the
\* OP_CLOSURE of the function.
RyFunction(name, arity, upvalueCount, sub) ==
    [name |-> name, arity |-> arity, upvalueCount |-> upvalueCount,
     code |-> sub.code, constants |-> sub.constants, ends |-> sub.ends,
     pairs |-> Len(sub.upvalues)]

\* The tables of a chunk; `chunks` is history: the tables of every chunk a
\* sub-compiler has finished.
Tables(act) ==
    [code |-> act.code, lines |-> act.lines, columns |-> act.columns,
     constants |-> act.constants, operands |-> act.operands]
Enclosing(cs) == [cs EXCEPT !.acts = SubSeq(@, 1, Len(@) - 1),
                            !.chunks = @ \cup {Tables(Cur(cs))}]

visitFunctionStmt(cs, stmt) ==
    With(compileBody(cs, 0, "", stmt), LAMBDA c1 :
        LET sub == Cur(c1)
            function == RyFunction(stmt.name, Len(stmt.parameters),
                                   Len(sub.upvalues), sub)
            c2 == emitWithConstant(Enclosing(c1), "OP_CLOSURE", FunctionV(function))
        IN  emitWithConstant(emitUpvalues(c2, sub.upvalues),
                             "OP_DEFINE_GLOBAL", StrV(stmt.name)))

\* compileMethod never assigns function->upvalueCount: it keeps its initial
\* value, taken to be 0.
compileMethod(cs, stmt) ==
    With(compileBody(cs, Cur(cs).currentClass, "this", stmt), LAMBDA c1 :
        LET sub == Cur(c1)
            function == RyFunction(stmt.name, Len(stmt.parameters), 0, sub)
            c2 == emitWithConstant(Enclosing(c1), "OP_CLOSURE", FunctionV(function))
        IN  emitUpvalues(c2, sub.upvalues))

RECURSIVE compileMethods(_, _)
compileMethods(cs, methods) ==
    IF methods = <<>> THEN cs
    ELSE compileMethods(
             emitWithConstant(tracked(compileMethod, cs, Head(methods)),
                              "OP_METHOD", StrV(Head(methods).name)),
             Tail(methods))

ClassHeader(cs, stmt) ==
    LET c0 == SetCur(cs, [Cur(cs) EXCEPT !.currentClass = @ + 1])
        c1 == addConstant(c0, StrV(stmt.name))
        nameConst == makeConstant(c0)
    IN  emitBytes(emitBytes(emitBytes(c1, Op("OP_CLASS"), nameConst),
                            Op("OP_DEFINE_GLOBAL"), nameConst),
                  Op("OP_GET_GLOBAL"), nameConst)
visitClassStmt(cs, stmt) ==
    With(compileMethods(
             IF stmt.superclass # NoNode
             THEN emitByte(compileExpression(ClassHeader(cs, stmt), stmt.superclass),
                           Op("OP_INHERIT"))
             ELSE ClassHeader(cs, stmt),
             stmt.methods), LAMBDA c4 :
        emitByte(SetCur(c4, [Cur(c4) EXCEPT !.currentClass = Cur(cs).currentClass]),
                 Op("OP_POP")))

\* The number of trailing locals deeper than the innermost loop's scope.
LocalsAbove(a, depth) ==
    LET n == Len(a.locals)
        shallow == {i \in 1..n : a.locals[i].depth <= depth}
    IN  IF shallow = {} THEN n
        ELSE n - (CHOOSE i \in shallow : \A j \in shallow : j <= i)

RECURSIVE emitPops(_, _)
emitPops(cs, n) ==
    IF n <= 0 THEN cs ELSE emitPops(emitByte(cs, Op("OP_POP")), n - 1)

\* A stop that pops the locals of the body and forgets the index and the
\* collection of an each loop.
visitStopStmtBodyOnly(cs, stmt) ==
    LET a == Cur(cs)
    IN  IF a.loopStack = <<>> THEN error(cs)
        ELSE LET loop == a.loopStack[Len(a.loopStack)]
                 c1 == emitPops(cs, LocalsAbove(a, loop.scopeDepth))
                 c3 == emitByte(emitByte(emitByte(c1, Op("OP_JUMP")), 255), 255)
             IN  SetCur(c3, [Cur(c3) EXCEPT
                               !.loopStack[Len(a.loopStack)].breakJumps =
                                   Append(@, CodeSize(c3) - 2)])

visitStopStmt(cs, stmt) ==
    LET a == Cur(cs)
    IN  IF a.loopStack = <<>> THEN error(cs)
        ELSE LET loop == a.loopStack[Len(a.loopStack)]
                 c1 == emitPops(cs, LocalsAbove(a, loop.scopeDepth))
                 c2 == IF loop.type = "LOOP_EACH"
                       THEN emitBytes(c1, Op("OP_POP"), Op("OP_POP"))
                       ELSE c1
                 c3 == emitByte(emitByte(emitByte(c2, Op("OP_JUMP")), 255), 255)
             IN  SetCur(c3, [Cur(c3) EXCEPT
                               !.loopStack[Len(a.loopStack)].breakJumps =
                                   Append(@, CodeSize(c3) - 2)])

\* The locals of the body are popped and emitLoop goes to startIP.
visitSkipStmt(cs, stmt) ==
    LET a == Cur(cs)
    IN  IF a.loopStack = <<>> THEN error(cs)
        ELSE emitLoop(emitPops(cs, LocalsAbove(a, a.loopStack[Len(a.loopStack)].scopeDepth)),
                      a.loopStack[Len(a.loopStack)].startIP)

RECURSIVE patchJumps(_, _)
patchJumps(cs, locations) ==
    IF locations = <<>> THEN cs
    ELSE patchJumps(patchJump(cs, Head(locations)), Tail(locations))

PushLoop(cs, startIP, type) ==
    SetCur(cs, [Cur(cs) EXCEPT !.loopStack =
                  Append(@, [startIP |-> startIP, breakJumps |-> <<>>,
                             scopeDepth |-> Cur(cs).scopeDepth, type |-> type])])
PopLoop(cs) ==
    SetCur(cs, [Cur(cs) EXCEPT !.loopStack = SubSeq(@, 1, Len(@) - 1)])

visitEachStmt(cs, stmt) ==
    With(addLocal(addLocal(beginScope(
             emitConstant(compileExpression(cs, stmt.collection), NumV(0))), ""), ""),
         LAMBDA c2 :
    With(emitJump(PushLoop(c2, CodeSize(c2), "LOOP_EACH"), "OP_FOR_EACH_NEXT"),
         LAMBDA c3 :
    With(compileStatement(addLocal(beginScope(c3), stmt.id), stmt.body),
         LAMBDA c4 :
        LET loopStart == CodeSize(c2)
            exitJump == JumpOperand(c3)
            c5 == endScope(patchJump(emitLoop(endScope(c4), loopStart), exitJump))
            loop == Cur(c5).loopStack[Len(Cur(c5).loopStack)]
        IN  IF c4.acts = <<>> THEN c4
            ELSE PopLoop(patchJumps(c5, loop.breakJumps)))))

visitIfStmt(cs, stmt) ==
    With(emitJump(compileExpression(cs, stmt.condition), "OP_JUMP_IF_FALSE"),
         LAMBDA c1 :
    With(emitJump(compileStatement(emitByte(c1, Op("OP_POP")), stmt.thenBranch),
                  "OP_JUMP"),
         LAMBDA c2 :
        LET thenJump == JumpOperand(c1)
            elseJump == JumpOperand(c2)
            c3 == emitByte(patchJump(c2, thenJump), Op("OP_POP"))
        IN  IF c2.acts = <<>> THEN c2
            ELSE patchJump(IF stmt.elseBranch # NoNode
                           THEN compileStatement(c3, stmt.elseBranch)
                           ELSE c3,
                           elseJump)))

\* `context` is the local LoopContext of the visitor; loopStack holds a copy
\* of it, and visitStopStmt records its jumps in the copy.
visitWhileStmt(cs, stmt) ==
    LET loopStart == CodeSize(cs)
        context == [startIP |-> loopStart, breakJumps |-> <<>>,
                    scopeDepth |-> Cur(cs).scopeDepth, type |-> "LOOP_WHILE"]
    IN
    With(emitJump(compileExpression(PushLoop(cs, loopStart, "LOOP_WHILE"),
                                    stmt.condition), "OP_JUMP_IF_FALSE"),
         LAMBDA c2 :
    With(emitLoop(compileStatement(emitByte(c2, Op("OP_POP")), stmt.body), loopStart),
         LAMBDA c3 :
        LET exitJump == JumpOperand(c2)
            c4 == emitByte(patchJump(c3, exitJump), Op("OP_POP"))
        IN  IF c3.acts = <<>> THEN c3
            ELSE PopLoop(patchJumps(c4, context.breakJumps))))

visitForStmt(cs, stmt) ==
    With(IF stmt.init # NoNode
         THEN compileStatement(beginScope(cs), stmt.init)
         ELSE beginScope(cs),
         LAMBDA c0 :
    With(IF stmt.condition # NoNode
         THEN emitByte(emitJump(compileExpression(
                                    PushLoop(c0, CodeSize(c0), "LOOP_FOR"),
                                    stmt.condition),
                                "OP_JUMP_IF_FALSE"), Op("OP_POP"))
         ELSE PushLoop(c0, CodeSize(c0), "LOOP_FOR"),
         LAMBDA c2 :
    With(compileStatement(c2, stmt.body),
         LAMBDA c3 :
    With(emitLoop(IF stmt.increment # NoNode
                  THEN emitByte(compileExpression(c3, stmt.increment), Op("OP_POP"))
                  ELSE c3,
                  CodeSize(c0)),
         LAMBDA c5 :
        LET context == [startIP |-> CodeSize(c0), breakJumps |-> <<>>,
                        scopeDepth |-> Cur(c0).scopeDepth, type |-> "LOOP_FOR"]
            exitJump == IF stmt.condition # NoNode THEN CodeSize(c2) - 3 ELSE -1
            c6 == IF exitJump # -1
                  THEN emitByte(patchJump(c5, exitJump), Op("OP_POP"))
                  ELSE c5
        IN  IF c3.acts = <<>> THEN c3
            ELSE endScope(PopLoop(patchJumps(c6, context.breakJumps)))))))

visitAttemptStmt(cs, stmt) ==
    With(emitJump(emitByte(
             endScope(compileStatements(beginScope(emitJump(cs, "OP_ATTEMPT")),
                                        stmt.attemptBody)),
             Op("OP_END_ATTEMPT")), "OP_JUMP"),
         LAMBDA c3 :
        LET jumpToFail == JumpOperand(emitJump(cs, "OP_ATTEMPT"))
            skipFail == JumpOperand(c3)
            c4 == addLocal(beginScope(patchJump(c3, jumpToFail)), stmt.error)
        IN  patchJump(endScope(compileStatements(c4, stmt.failBody)), skipFail))

statementEnd(cs) ==
    SetCur(cs, [Cur(cs) EXCEPT !.ends = @ \cup {<<Len(Cur(cs).code), Len(Cur(cs).locals)>>}])

compileStatement(cs, stmt) ==
    statementEnd(
        CASE stmt.t = "Expression" -> visitExpressionStmt(cs, stmt)
          [] stmt.t = "Var" -> tracked(visitVarStmt, cs, stmt)
          [] stmt.t = "Block" -> visitBlockStmt(cs, stmt)
          [] stmt.t = "Function" -> tracked(visitFunctionStmt, cs, stmt)
          [] stmt.t = "Return" -> tracked(visitReturnStmt, cs, stmt)
          [] stmt.t = "Class" -> tracked(visitClassStmt, cs, stmt)
          [] stmt.t = "Panic" -> tracked(visitPanicStmt, cs, stmt)
          [] stmt.t = "Attempt" -> visitAttemptStmt(cs, stmt)
          [] stmt.t = "Each" -> tracked(visitEachStmt, cs, stmt)
          [] stmt.t = "If" -> visitIfStmt(cs, stmt)
          [] stmt.t = "While" -> visitWhileStmt(cs, stmt)
          [] stmt.t = "For" -> visitForStmt(cs, stmt)
          [] stmt.t = "Stop" -> tracked(visitStopStmt, cs, stmt)
          [] stmt.t = "Skip" -> tracked(visitSkipStmt, cs, stmt)
          [] stmt.t = "Import" -> visitImportStmt(cs, stmt)
          [] stmt.t = "Namespace" -> tracked(visitNamespaceStmt, cs, stmt)
          [] OTHER -> cs)

compileExpression(cs, expr) ==
    CASE expr.t = "Value" -> tracked(visitValue, cs, expr)
      [] expr.t = "Variable" -> tracked(visitVariable, cs, expr)
      [] expr.t = "Assign" -> tracked(visitAssign, cs, expr)
      [] expr.t = "Postfix" -> tracked(visitPostfix, cs, expr)
      [] expr.t = "Prefix" -> tracked(visitPrefix, cs, expr)
      [] expr.t = "Math" -> tracked(visitMath, cs, expr)
      [] expr.t = "Call" -> tracked(visitCall, cs, expr)
      [] expr.t = "Get" -> tracked(visitGet, cs, expr)
      [] expr.t = "Set" -> tracked(visitSet, cs, expr)
      [] expr.t = "This" -> visitThis(cs, expr)
      [] expr.t = "List" -> visitList(cs, expr)
      [] expr.t = "Map" -> tracked(visitMap, cs, expr)
      [] expr.t = "Range" -> tracked(visitRange, cs, expr)
      [] expr.t = "Index" -> tracked(visitIndex, cs, expr)
      [] expr.t = "IndexSet" -> tracked(visitIndexSet, cs, expr)
      [] OTHER -> cs

\* Compiler::compile on a fresh Compiler(nullptr, source): the script's chunk
\* wrapped as the function main.cpp hands to VM::interpret.
Compiler(junk) ==
    [acts |-> <<NewCompiler(0, junk)>>, hadError |-> FALSE,
     reported |-> FALSE, junk |-> junk, chunks |-> {}]
compiled(statements, junk) ==
    emitByte(compileStatements(addLocal(Compiler(junk), "(script)"), statements),
             Op("OP_RETURN"))
\* The function made of the chunk: its code and constants are the same
\* whatever the indeterminate positions were.
compile(statements) ==
    RyFunction("<main>", 0, 0, Cur(compiled(statements, CHOOSE junk \in Junk : TRUE)))

\* What Compiler::compile returns: "return true; // Return false if there's
\* a compilation error".
compileReturns(statements) == TRUE

(***************************************************************************)
(* backend/src/lexer.cpp: the source text is a sequence of characters, a   *)
(* token keeps its type, lexeme, line and column.  `at` is history: the    *)
(* index in the source of the character the token begins with (for a       *)
(* synthetic PLUS, of the character the lexer was at when it made it).     *)
(***************************************************************************)
NUL == "NUL"
Digits == {"0", "1", "2", "3", "4", "5", "6", "7", "8", "9"}
Letters ==
    {"a", "b", "c", "d", "e", "f", "g", "h", "i", "j", "k", "l", "m",
     "n", "o", "p", "q", "r", "s", "t", "u", "v", "w", "x", "y", "z",
     "A", "B", "C", "D", "E", "F", "G", "H", "I", "J", "K", "L", "M",
     "N", "O", "P", "Q", "R", "S", "T", "U", "V", "W", "X", "Y", "Z"}
isdigit(c) == c \in Digits
isalpha(c) == c \in Letters
isalnum(c) == isdigit(c) \/ isalpha(c)

\* Lexer::Lexer(source)
Lexer(source) ==
    [source |-> source, tokens |-> <<>>, start |-> 0, current |-> 0,
     line |-> 1, column |-> 1, tokenStartColumn |-> 1,
     reports |-> <<>>, calls |-> 0, returned |-> FALSE, threw |-> FALSE]

isAtEnd(lx) == lx.current >= Len(lx.source)
peek(lx) == IF isAtEnd(lx) THEN NUL ELSE lx.source[lx.current + 1]
peekNext(lx) ==
    IF lx.current + 1 >= Len(lx.source) THEN NUL ELSE lx.source[lx.current + 2]

\* Lexer::next, the state it leaves; the character it returns is peek(lx).
next(lx) ==
    IF peek(lx) = "\n"
    THEN [lx EXCEPT !.current = @ + 1, !.line = @ + 1, !.column = 1]
    ELSE [lx EXCEPT !.current = @ + 1, !.column = @ + 1]

match(lx, expected) == IF expected # peek(lx) THEN lx ELSE next(lx)

Token(type, lexeme, line, column, at) ==
    [type |-> type, lexeme |-> lexeme, line |-> line, column |-> column, at |-> at]

emplace(lx, type, lexeme, line, column, at) ==
    [lx EXCEPT !.tokens = Append(@, Token(type, lexeme, line, column, at))]

\* Lexer::addToken(type): the lexeme is source.substr(start, current - start).
addToken(lx, type) ==
    emplace(lx, type, SubSeq(lx.source, lx.start + 1, lx.current),
            lx.line, lx.tokenStartColumn, lx.start)

\* RyTools::report(line, column, "", message, source)
report(lx, column, message) ==
    [lx EXCEPT !.reports = Append(@, [line |-> lx.line, column |-> column,
                                      message |-> message])]

\* while (cond(peek())): next()
RECURSIVE skipWhile(_, _)
skipWhile(lx, stops) ==
    IF peek(lx) \in stops \/ isAtEnd(lx) THEN lx ELSE skipWhile(next(lx), stops)

\* while (std::isdigit(peek())) next(): the digits end at the first
\* character that is none; a digit is no newline, so each advances column.
digits(lx) ==
    LET end == CHOOSE j \in lx.current..Len(lx.source) :
                   /\ \A k \in (lx.current + 1)..j : isdigit(lx.source[k])
                   /\ j = Len(lx.source) \/ ~isdigit(lx.source[j + 1])
    IN  [lx EXCEPT !.current = end, !.column = @ + (end - lx.current)]

\* The decimal exponent of the largest double.
DBL_MAX_10_EXP == 308

\* The digits of ds after its leading zeros.
significant(ds) ==
    LET zeros == CHOOSE n \in 0..Len(ds) :
                     /\ \A k \in 1..n : ds[k] = "0"
                     /\ n = Len(ds) \/ ds[n + 1] # "0"
    IN  SubSeq(ds, zeros + 1, Len(ds))

\* std::stod(text) throws std::out_of_range when strtod reports ERANGE: a
\* whole part of more than DBL_MAX_10_EXP + 1 digits is above every double.
stodThrows(wholePart) == Len(significant(wholePart)) > DBL_MAX_10_EXP + 1

\* Lexer::number; nothing catches what std::stod throws.
number(lx) ==
    LET whole == digits(lx)
        all == IF peek(whole) = "." THEN digits(next(whole)) ELSE whole
    IN  IF stodThrows(SubSeq(lx.source, lx.start + 1, whole.current))
        THEN [all EXCEPT !.threw = TRUE]
        ELSE addToken(all, "NUMBER")

RECURSIVE alnums(_)
alnums(lx) ==
    IF isalnum(peek(lx)) \/ peek(lx) = "_" THEN alnums(next(lx)) ELSE lx

\* No name over the letters used here is in the keyword table.
identifier(lx) == addToken(alnums(lx), "IDENTIFIER")

\* The switch of escapes in Lexer::str.
Escaped(c) ==
    CASE c = "n" -> "\n"
      [] c = "t" -> "\t"
      [] c = "r" -> "\r"
      [] OTHER -> c

\* The loop of Lexer::str and what follows it; value is the segment read so
\* far, segAt where the segment began.
RECURSIVE strLoop(_, _, _)
strLoop(lx, value, segAt) ==
    IF peek(lx) # "\"" /\ ~isAtEnd(lx)
    THEN IF peek(lx) = "\\"
         THEN LET l1 == next(lx)
              IN  IF isAtEnd(l1)
                  THEN report(l1, l1.column, "Unterminated string.")
                  ELSE strLoop(next(l1), Append(value, Escaped(peek(l1))), segAt)
         ELSE IF peek(lx) = "$" /\ peekNext(lx) = "{"
         THEN LET l1 == IF value # <<>>
                        THEN emplace(emplace(lx, "STRING", value, lx.line,
                                             lx.tokenStartColumn, segAt),
                                     "PLUS", <<"+">>, lx.line, lx.column, lx.current)
                        ELSE lx
                  l2 == next(next(l1))
                  varStart == l2.current
                  l3 == skipWhile(l2, {"}"})
              IN  IF isAtEnd(l3)
                  THEN report(l3, l3.column, "Unterminated interpolation.")
                  ELSE LET varName == SubSeq(l3.source, varStart + 1, l3.current)
                           l4 == emplace(l3, "IDENTIFIER", varName, l3.line,
                                         l3.column, varStart)
                           l5 == next(l4)
                           l6 == emplace(l5, "PLUS", <<"+">>, l5.line, l5.column,
                                         l5.current)
                       IN  strLoop([l6 EXCEPT !.tokenStartColumn = l6.column],
                                   <<>>, l6.current)
         ELSE LET l1 == IF peek(lx) = "\n" THEN [lx EXCEPT !.line = @ + 1] ELSE lx
              IN  strLoop(next(l1), Append(value, peek(l1)), segAt)
    ELSE IF isAtEnd(lx)
    THEN report(lx, lx.column, "Unterminated string.")
    ELSE LET l1 == next(lx)
         IN  emplace(l1, "STRING", value, l1.line, l1.tokenStartColumn, segAt)

str(lx) == strLoop(lx, <<>>, lx.start)

\* The cases of scanToken that add one token whatever follows.
Punctuators ==
    ("*" :> "STAR") @@ ("/" :> "DIVIDE") @@ ("(" :> "LPAREN") @@ (")" :> "RPAREN")
    @@ ("{" :> "LBRACE") @@ ("}" :> "RBRACE") @@ ("," :> "COMMA")
    @@ ("[" :> "LBRACKET") @@ ("]" :> "RBRACKET") @@ ("." :> "DOT")
    @@ ("%" :> "PERCENT") @@ ("&" :> "AMPERSAND") @@ ("^" :> "CARET")
    @@ ("|" :> "PIPE") @@ ("~" :> "TILDE")

\* The cases of scanToken that look at the next character: the token of the
\* character alone, and the characters it is matched against, in order.
Operators ==
    ("+" :> [alone |-> "PLUS", with |-> << <<"+", "PLUS_PLUS">> >>])
    @@ ("-" :> [alone |-> "MINUS",
                with |-> << <<">", "LARROW">>, <<"-", "MINUS_MINUS">> >>])
    @@ ("=" :> [alone |-> "EQUAL", with |-> << <<"=", "EQUAL_EQUAL">> >>])
    @@ ("<" :> [alone |-> "LESS",
                with |-> << <<"<", "LESS_LESS">>, <<"=", "LESS_EQUAL">> >>])
    @@ (">" :> [alone |-> "GREATER",
                with |-> << <<">", "GREATER_GREATER">>, <<"=", "GREATER_EQUAL">> >>])
    @@ ("!" :> [alone |-> "BANG", with |-> << <<"=", "BANG_EQUAL">> >>])
    @@ (":" :> [alone |-> "COLON", with |-> << <<":", "DOUBLE_COLON">> >>])

RECURSIVE matchFirst(_, _, _)
matchFirst(lx, with, alone) ==
    IF with = <<>> THEN addToken(lx, alone)
    ELSE IF peek(lx) = Head(with)[1] THEN addToken(next(lx), Head(with)[2])
    ELSE matchFirst(lx, Tail(with), alone)

\* Lexer::scanToken
scanToken(lx0) ==
    LET c == peek(lx0)
        lx == next(lx0)
    IN  CASE c = "#" -> skipWhile(lx, {"\n"})
          [] c \in DOMAIN Operators ->
               matchFirst(lx, Operators[c].with, Operators[c].alone)
          [] c \in DOMAIN Punctuators -> addToken(lx, Punctuators[c])
          [] c = "\"" -> str(lx)
          [] c \in {" ", "\t", "\n"} -> lx
          [] OTHER ->
               IF isdigit(c) THEN number(lx)
               ELSE IF isalpha(c) \/ c = "_" THEN identifier(lx)
               ELSE report(lx, lx.tokenStartColumn, "Unexpected character")

\* One turn of the loop of Lexer::scanTokens; calls is history, the number
\* of scanToken calls so far.
scanStep(lx) ==
    scanToken([lx EXCEPT !.tokenStartColumn = lx.column, !.start = lx.current,
                         !.calls = @ + 1])

\* Lexer::scanTokens, as a function of the source.
RECURSIVE scanLoop(_)
scanLoop(lx) ==
    IF lx.threw THEN lx
    ELSE IF isAtEnd(lx) THEN [addToken(lx, "EOF_TOKEN") EXCEPT !.returned = TRUE]
    ELSE scanLoop(scanStep(lx))
scanTokens(source) == scanLoop(Lexer(source)).tokens

(***************************************************************************)
(* The parser on the tokens of one string literal: primaries joined by     *)
(* PLUS, the operator associating to the left.                             *)
(***************************************************************************)
RECURSIVE Text(_)
Text(chars) == IF chars = <<>> THEN "" ELSE Head(chars) \o Text(Tail(chars))

primary(token) ==
    IF token.type = "STRING" THEN Str(Text(token.lexeme))
    ELSE Var(Text(token.lexeme))

RECURSIVE term(_, _)
term(left, tokens) ==
    IF Len(tokens) < 2 \/ Head(tokens).type # "PLUS" THEN left
    ELSE term(Math("PLUS", left, primary(tokens[2])),
              SubSeq(tokens, 3, Len(tokens)))

expression(tokens) == term(primary(Head(tokens)), Tail(tokens))

\* The expression statement-level code gets for the string literal `source`.
Literal(source) == expression(scanTokens(source))

\* String literals with interpolations: "a${s}b", "${a}${b}" and "${l}!".
Interpolated ==
    [ interpText |-> <<"\"", "a", "$", "{", "s", "}", "b", "\"">>,
      interpNumbers |-> <<"\"", "$", "{", "a", "}", "$", "{", "b", "}", "\"">>,
      interpList |-> <<"\"", "$", "{", "l", "}", "!", "\"">> ]

(***************************************************************************)
(* Scripts: the programs main.cpp hands to the pipeline, as the parser's   *)
(* statement lists.  The first call of interpret runs any of them; a later *)
(* call (the next REPL line) runs one of FollowUps.                        *)
(***************************************************************************)
Out(expr) == ExpressionStmt(Call(Var("out"), <<expr>>))
CallStmt(name, arguments) == ExpressionStmt(Call(Var(name), arguments))

GetStmt(object, name) == ExpressionStmt(Get(object, name))
Caught(attemptBody) == AttemptStmt(attemptBody, "e", << Out(Var("e")) >>)

ClassA ==
    ClassStmt("A", NoNode,
        << FunctionStmt("init", <<"n">>,
               << ExpressionStmt(Set(This, "x", Var("n"))) >>),
           FunctionStmt("get", <<>>, << ReturnStmt(Get(This, "x")) >>) >>)

\* class B { func init(n) { this.x = n  return 5 }  func get() { return this.x } }
ClassB ==
    ClassStmt("B", NoNode,
        << FunctionStmt("init", <<"n">>,
               << ExpressionStmt(Set(This, "x", Var("n"))),
                  ReturnStmt(Num(5)) >>),
           FunctionStmt("get", <<>>, << ReturnStmt(Get(This, "x")) >>) >>)

\* class B childof A { func twice() { return this.x + this.x } }
ClassChild ==
    ClassStmt("B", Var("A"),
        << FunctionStmt("twice", <<>>,
               << ReturnStmt(Math("PLUS", Get(This, "x"), Get(This, "x"))) >>) >>)

\* class L { func init(n) { this.len = n }  func get() { return this.len } }
ClassL ==
    ClassStmt("L", NoNode,
        << FunctionStmt("init", <<"n">>,
               << ExpressionStmt(Set(This, "len", Var("n"))) >>),
           FunctionStmt("get", <<>>, << ReturnStmt(Get(This, "len")) >>) >>)

\* func f() { attempt { return 1 } fail e { out(e) } }
ReturnInAttempt ==
    FunctionStmt("f", <<>>, << Caught(<< ReturnStmt(Num(1)) >>) >>)

Scripts ==
    [ hello |-> << Out(Math("PLUS", Num(1), Num(2))) >>,
      sum |->
        << VarStmt("i", Num(0)),
           EachStmt("k", Range(Num(1), Num(4)),
               BlockStmt(<< ExpressionStmt(Assign("i", Math("PLUS", Var("i"), Var("k")))) >>)),
           Out(Var("i")) >>,
      counter |->
        << FunctionStmt("make", <<>>,
               << VarStmt("x", Num(0)),
                  FunctionStmt("inc", <<>>,
                      << ExpressionStmt(Assign("x", Math("PLUS", Var("x"), Num(1)))),
                         ReturnStmt(Var("x")) >>),
                  ReturnStmt(Var("inc")) >>),
           VarStmt("c", Call(Var("make"), <<>>)),
           Out(Call(Var("c"), <<>>)),
           Out(Call(Var("c"), <<>>)) >>,
      upvalueBelow |->
        << FunctionStmt("outer", <<>>,
               << VarStmt("x", Num(0)),
                  FunctionStmt("set", <<"v">>,
                      << ExpressionStmt(Assign("x", Var("v"))) >>),
                  CallStmt("set", <<Num(5)>>),
                  ReturnStmt(Var("x")) >>),
           Out(Call(Var("outer"), <<>>)) >>,
      locals |->
        << FunctionStmt("h", <<"p">>,
               << VarStmt("y", Num(1)),
                  ExpressionStmt(Assign("y", Math("PLUS", Var("p"), Var("y")))),
                  ReturnStmt(Var("y")) >>),
           Out(Call(Var("h"), <<Num(2)>>)) >>,
      initFunction |->
        << FunctionStmt("init", <<>>, << ReturnStmt(Num(5)) >>),
           Out(Call(Var("init"), <<>>)) >>,
      popTwice |->
        << VarStmt("l", List(<<Num(1), Num(2), Num(3)>>)),
           ExpressionStmt(Call(Get(Var("l"), "pop"), <<>>)),
           ExpressionStmt(Call(Get(Var("l"), "pop"), <<>>)) >>,
      stalePop |->
        << VarStmt("a", List(<<Num(1), Num(2), Num(3)>>)),
           CallStmt("out", <<Num(1), List(<<Num(9)>>)>>),
           ExpressionStmt(Call(Get(Var("a"), "pop"), <<>>)),
           Out(Get(Var("a"), "len")) >>,
      lenNumber |->
        << VarStmt("n", Num(1)),
           GetStmt(Var("n"), "len"),
           GetStmt(Var("n"), "len") >>,
      sink |->
        << FunctionStmt("f", <<"n">>,
               << GetStmt(Var("n"), "len"),
                  GetStmt(Var("n"), "len"),
                  GetStmt(Var("n"), "len"),
                  VarStmt("y", Num(7)),
                  ReturnStmt(Num(1)) >>),
           FunctionStmt("g", <<>>,
               << VarStmt("a", Num(1)),
                  CallStmt("f", <<Num(2)>>),
                  ReturnStmt(Var("a")) >>),
           Out(Call(Var("g"), <<>>)) >>,
      deepArgs |->
        << FunctionStmt("f", <<"a", "b", "c", "d">>,
               << CallStmt("f", <<Var("a"), Var("b"), Var("c"), Var("d")>>) >>),
           Caught(<< CallStmt("f", <<Num(1), Num(2), Num(3), Num(4)>>) >>) >>,
      recurse |->
        << FunctionStmt("r", <<>>, << CallStmt("r", <<>>) >>),
           Caught(<< CallStmt("r", <<>>) >>) >>,
      attemptOk |-> << Caught(<< Out(Num(1)) >>), Out(Num(2)) >>,
      divZero |-> << Caught(<< Out(Math("DIVIDE", Num(10), Num(0))) >>) >>,
      divide |-> << Out(Math("DIVIDE", Num(10), Num(5))) >>,
      indexRead |->
        << AttemptStmt(<< VarStmt("a", List(<<Num(1), Num(2)>>)),
                          Out(Index(Var("a"), Num(1))),
                          Out(Index(Var("a"), Num(5))) >>,
                       "e",
                       << Out(Math("PLUS", Str("caught: "), Var("e"))) >>) >>,
      indexWrite |->
        << Caught(<< VarStmt("a", List(<<Num(1), Num(2)>>)),
                     ExpressionStmt(IndexSet(Var("a"), Num(0), Num(9))),
                     ExpressionStmt(IndexSet(Var("a"), Num(5), Num(0))) >>) >>,
      mapWrite |->
        << Caught(<< VarStmt("m", Map(<< <<Str("k"), Num(1)>>, <<Num(2), Null>> >>)),
                     Out(Index(Var("m"), Str("k"))),
                     ExpressionStmt(IndexSet(Var("m"), Str("k"), Num(2))),
                     Out(Index(Var("m"), Str("k"))) >>) >>,
      stringWrite |->
        << Caught(<< VarStmt("s", Str("ab")),
                     Out(Index(Var("s"), Num(1))),
                     ExpressionStmt(IndexSet(Var("s"), Num(0), Str("z"))),
                     Out(Var("s")) >>) >>,
      undefinedVar |-> << Caught(<< Out(Var("nope")) >>) >>,
      typeError |-> << Caught(<< Out(Math("PLUS", Null, Num(1))) >>) >>,
      badIterator |->
        << Caught(<< EachStmt("x", Num(5), BlockStmt(<< Out(Var("x")) >>)) >>) >>,
      stopInAttempt |->
        << EachStmt("k", List(<<Num(1), Num(2)>>),
               BlockStmt(<< AttemptStmt(<< StopStmt >>, "e", <<>>) >>)),
           Out(Num(0)) >>,
      classes |->
        << ClassA,
           VarStmt("a", Call(Var("A"), <<Num(7)>>)),
           Out(Call(Get(Var("a"), "get"), <<>>)) >>,
      arityInit |-> << ClassA, Caught(<< CallStmt("A", <<>>) >>) >>,
      arityInitUncaught |-> << ClassA, CallStmt("A", <<>>) >>,
      arityBound |->
        << ClassA,
           VarStmt("a", Call(Var("A"), <<Num(7)>>)),
           Caught(<< ExpressionStmt(Call(Get(Var("a"), "get"), <<Num(5)>>)) >>) >>,
      arityClosure |->
        << FunctionStmt("g", <<"x">>, << ReturnStmt(Var("x")) >>),
           Caught(<< CallStmt("g", <<>>) >>) >>,
      arityNative |-> << Caught(<< CallStmt("clock", <<Num(1)>>), CallStmt("out", <<>>) >>) >>,
      arityNoInit |->
        << ClassStmt("B", NoNode, <<>>),
           Caught(<< CallStmt("B", <<Num(1)>>) >>) >>,
      nestedAttempt |->
        << AttemptStmt(
               << AttemptStmt(<< PanicStmt(Str("in")) >>, "e",
                              << Out(Math("PLUS", Str("inner "), Var("e"))) >>),
                  AttemptStmt(<< PanicStmt(Str("a")) >>, "e",
                              << PanicStmt(Str("b")) >>),
                  Out(Str("not reached")) >>,
               "o",
               << Out(Math("PLUS", Str("outer "), Var("o"))) >>) >>,
      failPanics |->
        << AttemptStmt(<< PanicStmt(Str("a")) >>, "e", << PanicStmt(Str("b")) >>),
           Out(Str("not reached")) >>,
      negation |->
        << Out(Prefix("BANG", True)),
           Out(Prefix("BANG", False)),
           Out(Prefix("BANG", Num(5))),
           Out(Prefix("MINUS", Num(5))),
           IfStmt(Prefix("BANG", Null), Out(Str("not null")), Out(Str("null"))),
           IfStmt(Prefix("BANG", Num(0)), Out(Str("not 0")), Out(Str("0"))) >>,
      returnInAttempt |->
        << ReturnInAttempt, CallStmt("f", <<>>), PanicStmt(Str("late")) >>,
      staleHandler |->
        << ReturnInAttempt,
           FunctionStmt("g", <<>>, <<>>),
           CallStmt("f", <<>>),
           CallStmt("g", <<>>),
           PanicStmt(Str("late")) >>,
      deepPanic |->
        << FunctionStmt("thrower", <<>>, << PanicStmt(Str("deep")) >>),
           FunctionStmt("mid", <<>>,
               << VarStmt("loc", Num(1)),
                  FunctionStmt("cap", <<>>, << ReturnStmt(Var("loc")) >>),
                  CallStmt("thrower", <<>>) >>),
           Caught(<< VarStmt("a", Num(1)), CallStmt("mid", <<>>) >>),
           Out(Call(Var("cap"), <<>>)) >>,
      closurePanic |->
        << FunctionStmt("mk", <<>>,
               << VarStmt("x", Num(0)),
                  FunctionStmt("bump", <<>>,
                      << ExpressionStmt(Assign("x", Math("PLUS", Var("x"), Num(1)))),
                         ReturnStmt(Var("x")) >>),
                  PanicStmt(Str("boom")) >>),
           CallStmt("mk", <<>>) >>,
      uncaught |-> << VarStmt("g1", Num(5)), PanicStmt(Str("plain")) >>,
      shared |->
        << FunctionStmt("mk", <<>>,
               << VarStmt("x", Num(0)),
                  VarStmt("y", Num(10)),
                  VarStmt("z", Num(20)),
                  FunctionStmt("incX", <<>>,
                      << ExpressionStmt(Assign("x", Math("PLUS", Var("x"), Num(1)))),
                         ReturnStmt(Var("x")) >>),
                  FunctionStmt("getZ", <<>>, << ReturnStmt(Var("z")) >>),
                  FunctionStmt("getY", <<>>, << ReturnStmt(Var("y")) >>),
                  FunctionStmt("getX", <<>>, << ReturnStmt(Var("x")) >>),
                  CallStmt("incX", <<>>),
                  Out(Call(Var("getX"), <<>>)),
                  ReturnStmt(Num(0)) >>),
           FunctionStmt("wrap", <<>>,
               << VarStmt("w", Num(7)),
                  FunctionStmt("getW", <<>>, << ReturnStmt(Var("w")) >>),
                  CallStmt("mk", <<>>),
                  ReturnStmt(Num(0)) >>),
           CallStmt("wrap", <<>>),
           CallStmt("incX", <<>>),
           Out(Call(Var("getX"), <<>>)),
           Out(Call(Var("getY"), <<>>)) >>,
      eachFn |->
        << FunctionStmt("f", <<>>,
               << VarStmt("a", Num(5)),
                  EachStmt("k", Range(Num(2), Num(5)), BlockStmt(<< Out(Var("k")) >>)),
                  EachStmt("v", List(<<Num(7), Num(8), Num(9)>>),
                      BlockStmt(<< VarStmt("t", Var("v")), Out(Var("t")) >>)),
                  EachStmt("n", Range(Num(3), Num(3)), BlockStmt(<< Out(Var("n")) >>)),
                  EachStmt("m", List(<<>>), BlockStmt(<< Out(Var("m")) >>)),
                  VarStmt("b", Num(6)),
                  Out(Math("PLUS", Var("a"), Var("b"))),
                  ReturnStmt(Var("b")) >>),
           Out(Call(Var("f"), <<>>)) >>,
      eachDown |->
        << EachStmt("k", Range(Num(3), Num(1)), BlockStmt(<< Out(Var("k")) >>)),
           Out(Str("done")) >>,
      readme |->
        << EachStmt("i", Range(Num(1), Num(3)),
               BlockStmt(<<
                   EachStmt("j", Range(Num(10), Num(13)),
                       BlockStmt(<<
                           IfStmt(Math("EQUAL_EQUAL", Var("j"), Num(12)),
                                  BlockStmt(<< StopStmt >>), NoNode),
                           Out(Math("PLUS", Math("PLUS", Var("i"), Str(" - ")),
                                    Var("j"))) >>)) >>)),
           Out(Str("end")) >>,
      whileStop |->
        << VarStmt("i", Num(0)),
           WhileStmt(Math("LESS", Var("i"), Num(10)),
               BlockStmt(<<
                   ExpressionStmt(Assign("i", Math("PLUS", Var("i"), Num(1)))),
                   IfStmt(Math("EQUAL_EQUAL", Var("i"), Num(2)),
                          BlockStmt(<< StopStmt >>), NoNode) >>)),
           Out(Var("i")) >>,
      skipFor |->
        << ForStmt(VarStmt("j", Num(0)), Math("LESS", Var("j"), Num(3)),
                   Postfix(Var("j"), "PLUS_PLUS"),
                   BlockStmt(<< IfStmt(Math("EQUAL_EQUAL", Var("j"), Num(1)),
                                       BlockStmt(<< SkipStmt >>), NoNode),
                                Out(Var("j")) >>)),
           Out(Str("after")) >>,
      skipEach |->
        << EachStmt("k", List(<<Num(1), Num(2), Num(3)>>),
               BlockStmt(<< IfStmt(Math("EQUAL_EQUAL", Var("k"), Num(2)),
                                   BlockStmt(<< SkipStmt >>), NoNode),
                            Out(Var("k")) >>)),
           Out(Str("after")) >>,
      forStop |->
        << ForStmt(VarStmt("j", Num(0)), Math("LESS", Var("j"), Num(3)),
                   Assign("j", Math("PLUS", Var("j"), Num(1))),
                   BlockStmt(<< Out(Var("j")), StopStmt >>)),
           Out(Str("after")) >>,
      initReturns |->
        << ClassB,
           VarStmt("b", Call(Var("B"), <<Num(7)>>)),
           Out(Call(Get(Var("b"), "get"), <<>>)) >>,
      fieldLen |->
        << ClassL,
           VarStmt("l", Call(Var("L"), <<Num(7)>>)),
           Out(Call(Get(Var("l"), "get"), <<>>)) >>,
      empty |-> << >>,
      inherit |-> << ClassA, ClassChild, Out(Str("done")) >>,
      inheritedMethod |->
        << ClassStmt("A", NoNode,
               << FunctionStmt("hello", <<>>, << ReturnStmt(Num(1)) >>) >>),
           ClassStmt("B", Var("A"), <<>>),
           Caught(<< VarStmt("b", Call(Var("B"), <<>>)),
                     Out(Call(Get(Var("b"), "hello"), <<>>)) >>) >>,
      mapProperty |->
        << VarStmt("m", Map(<< <<Str("k"), Num(1)>> >>)),
           Out(Get(Var("m"), "k")),
           Out(Get(Var("m"), "len")) >>,
      inheritNumber |->
        << VarStmt("n", Num(5)),
           Caught(<< ClassStmt("C", Var("n"), <<>>) >>) >>,
      stopOutside |-> << StopStmt, Out(Str("ran")) >>,
      errorThenFunction |->
        << StopStmt, FunctionStmt("f", <<>>, <<>>), Out(Str("ran")) >>,
      blockCapture |->
        << BlockStmt(<< VarStmt("x", Num(1)),
                        FunctionStmt("f", <<>>, << ReturnStmt(Var("x")) >>) >>),
           Out(Call(Var("f"), <<>>)) >>,
      blockCounter |->
        << FunctionStmt("mk", <<>>,
               << BlockStmt(<< VarStmt("x", Num(0)),
                               FunctionStmt("inc", <<>>,
                                   << ExpressionStmt(Assign("x", Math("PLUS", Var("x"), Num(1)))),
                                      ReturnStmt(Var("x")) >>) >>),
                  VarStmt("z", Num(100)),
                  ReturnStmt(Num(0)) >>),
           CallStmt("mk", <<>>),
           Out(Call(Var("inc"), <<>>)),
           Out(Call(Var("inc"), <<>>)) >>,
      callBump |-> << Out(Call(Var("bump"), <<>>)) >>,
      readG1 |-> << Out(Var("g1")) >>,
      importTwice |-> << ImportStmt(Str("lib")), ImportStmt(Str("lib")),
                         Out(Str("imported")) >>,
      importInFunction |->
          << FunctionStmt("f", <<"p">>, << ImportStmt(Str("lib")), ReturnStmt(Var("p")) >>),
             Out(Call(Var("f"), << Num(7) >>)) >>,
      importMissing |-> << Caught(<< ImportStmt(Str("nowhere")) >>),
                           Caught(<< ImportStmt(Num(5)) >>) >>,
      importBoom |-> << Caught(<< ImportStmt(Str("boom")) >>),
                        Out(Str("importer goes on")) >>,
      importRound |-> << ImportStmt(Str("round")) >>,
      manyConstants |->
          << IfStmt(Math("EQUAL_EQUAL", Num(1), Num(2)),
                    BlockStmt([i \in 1..16 |->
                                  BlockStmt([j \in 1..16 |-> ExpressionStmt(Num(7))])]),
                    NoNode),
             Out(Str("last")) >>,
      interpText |-> << VarStmt("s", Str("x")), Out(Literal(Interpolated.interpText)) >>,
      interpNumbers |-> << VarStmt("a", Num(1)), VarStmt("b", Num(2)),
                           Out(Literal(Interpolated.interpNumbers)) >>,
      interpList |-> << VarStmt("l", List(<< Num(1) >>)),
                        Out(Literal(Interpolated.interpList)) >>,
      \* { var x = 1  class B { get() { return x } }  out(B().get()) }
      methodCapture |->
          << BlockStmt(<< VarStmt("x", Num(1)),
                          ClassStmt("B", NoNode,
                              << FunctionStmt("get", <<>>, << ReturnStmt(Var("x")) >>) >>),
                          Out(Call(Get(Call(Var("B"), <<>>), "get"), <<>>)) >>) >> ]

FollowUps == {"hello", "callBump", "readG1"}

(***************************************************************************)
(* The virtual machine (vm/src/vm.cpp)                                     *)
(***************************************************************************)
STACK_MAX == 256
FRAMES_MAX == 64
\* The number of interpret calls made on one VM (REPL lines).
MaxInterpretCalls == 2
\* The highest loop index OP_FOR_EACH_NEXT is followed to.
MaxEachIndex == 5

(***************************************************************************)
(* The source texts Lexer::scanTokens is run on.                           *)
(***************************************************************************)
Alphabet == {"a", "1", "\"", "$", "{", "}", "\\", "\n", "@"}
MaxSourceLen == 4
Texts == UNION {[1..n -> Alphabet] : n \in 0..MaxSourceLen}
\* A number literal of one digit more than the largest double has.
LongNumber == [i \in 1..(DBL_MAX_10_EXP + 2) |-> "9"]

\* "${a}", "a${a}a", "${a}${a}", "${a", a string of two lines followed by
\* a name, and texts with the characters that are not in Alphabet.
Samples ==
    { <<"\"", "$", "{", "a", "}", "\"">>,
      <<"\"", "a", "$", "{", "a", "}", "a", "\"">>,
      <<"\"", "$", "{", "a", "}", "$", "{", "a", "}", "\"">>,
      <<"\"", "a", "$", "{", "a">>,
      <<"\"", "a", "\n", "a", "\"", " ", "a">>,
      <<"1", ".", "5", " ", "0", "0", "7">>,
      <<"#", "a", "\n", "_", "a", "1">>,
      <<"+", "+", "+", "-", ">", "-", "-", "-">>,
      <<"<", "=", "<", "<", ">", "=", ">", ">", "!", "=", "!", ":", ":", ":">>,
      <<"(", ")", "[", "]", ",", ".", "*", "/", "%", "&", "^", "|", "~", "=", "=", "=">>,
      LongNumber }
Sources == Texts \cup Samples

(***************************************************************************)
(* main.cpp runREPL: buffer is the lines appended so far (each followed by *)
(* a newline in the program), did and appended are history: what the last  *)
(* turn of the loop did, and the indent level and buffer it tested.        *)
(***************************************************************************)
MaxBufferLines == 3
MaxChange == 2
Lines == {"quit", "clear", "!!", "", "x", "func f() {", "}"}
Changes == (0 - MaxChange)..MaxChange
Nothing == [indentLevel |-> 0, buffer |-> <<>>]

Repl ==
    [buffer |-> <<>>, indentLevel |-> 0, running |-> TRUE, did |-> "start",
     appended |-> Nothing]

submitsAtZero(indentLevel, buffer) ==
    indentLevel = 0 /\ buffer # <<>> /\ buffer # <<"">>

\* indentLevel <= 0 && !buffer.empty() && buffer != "\n"
submits(indentLevel, buffer) ==
    indentLevel <= 0 /\ buffer # <<>> /\ buffer # <<"">>

\* The body of the loop after std::getline returned line. `returns` tells
\* whether interpret(vm, buffer) comes back: it does not when the script never
\* ends or an exception leaves interpret, which ends the program.
turn(r, line, change, returns) ==
    IF line = "quit"
    THEN [r EXCEPT !.running = FALSE, !.did = "quit", !.appended = Nothing]
    ELSE IF line = "clear"
    THEN [r EXCEPT !.buffer = <<>>, !.indentLevel = 0, !.did = "clear",
                   !.appended = Nothing]
    ELSE IF line = "!!"
    THEN [r EXCEPT !.buffer = <<>>, !.indentLevel = 0, !.did = "abort",
                   !.appended = Nothing]
    ELSE IF line = "" /\ r.buffer = <<>>
    THEN [r EXCEPT !.did = "skip", !.appended = Nothing]
    ELSE LET indentLevel == r.indentLevel + change
             buffer == Append(r.buffer, line)
             tested == [indentLevel |-> indentLevel, buffer |-> buffer]
         IN  IF submits(indentLevel, buffer) /\ ~returns
             THEN [r EXCEPT !.buffer = buffer, !.indentLevel = indentLevel,
                            !.running = FALSE,
                            !.did = "interpret", !.appended = tested]
             ELSE IF submits(indentLevel, buffer)
             THEN [r EXCEPT !.buffer = <<>>, !.indentLevel = 0,
                            !.did = "submit", !.appended = tested]
             ELSE IF indentLevel < 0
             THEN [r EXCEPT !.buffer = buffer, !.indentLevel = 0,
                            !.did = "append", !.appended = tested]
             ELSE [r EXCEPT !.buffer = buffer, !.indentLevel = indentLevel,
                            !.did = "append", !.appended = tested]

(***************************************************************************)
(* The module files OP_IMPORT can open, by resolved path.                  *)
(***************************************************************************)
Modules ==
    [ lib |-> << VarStmt("loaded", Str("lib")), Out(Var("loaded")) >>,
      boom |-> << Out(Str("boom begins")), PanicStmt(Str("boom")),
                  Out(Str("boom ends")) >>,
      round |-> << ImportStmt(Str("round")) >> ]

\* RyTools::findModulePath(name, false): the path of the module file.
findModulePath(name) == name

\* The value of exitCode while the process is running.
NoExit == -1
Commands == {"run", "repl"}

VARIABLES
    globals,        \* VM::globals
    stack,          \* VM::stack: the slots written so far (the others hold nil)
    stackTop,       \* VM::stackTop - VM::stack
    frames,         \* VM::frames: entries at or above frameCount are stale
    frameCount,     \* VM::frameCount
    openUpvalues,   \* VM::openUpvalues: the list, head first
    panicStack,     \* VM::panicStack
    upvalueObjs,    \* the RyUpValue objects closures point to
    objects,        \* the heap objects values point to: lists, classes, instances
    pc,             \* position in VM::run: "dispatch" or "trigger_panic"
    result,         \* what interpret returned, or "RUNNING", "EXIT", "UNDEFINED"
    output,         \* the lines written to stdout
    vmSource,       \* the script being interpreted (setVMSource)
    interpretCalls, \* number of calls of interpret on this VM
    command,        \* main's argv: "run" for `ry run <path>`, "repl" without arguments
    exitCode,       \* the status the process ended with, NoExit while it runs
    lexer,          \* the Backend::Lexer at work in Lexer::scanTokens
    repl,           \* the locals of runREPL: buffer, indentLevel, and what it did
    compiler,       \* a Compiler about to visit an expression naming a variable
    emitter,        \* a Compiler emitting a jump or a loop, and where it is to land
    moduleCache,    \* VM::moduleCache
    compilations,   \* history, per module path: how often OP_IMPORT compiled it
    fault,          \* history: the undefined behaviour the run ended in
    activation,     \* history, per frame entry: how the frame was entered and left
    attempts,       \* history, per panicStack entry: who executed the OP_ATTEMPT
    nextId          \* history: the next frame activation id

vmVars == <<globals, stack, stackTop, frames, frameCount, openUpvalues,
            panicStack, upvalueObjs, objects>>
frontVars == <<lexer, repl, compiler, emitter>>
moduleVars == <<moduleCache, compilations>>
runVars == <<pc, result, output, vmSource, interpretCalls, command, exitCode,
             frontVars, moduleVars>>
histVars == <<fault, activation, attempts, nextId>>
vars == <<vmVars, runVars, histVars>>

Natives ==
    [out |-> NativeV("out", 1), input |-> NativeV("input", 1),
     clock |-> NativeV("clock", 0), clear |-> NativeV("clear", 0),
     exit |-> NativeV("exit", 1), type |-> NativeV("type", 1),
     use |-> NativeV("use", 1)]

\* stack[i], for i inside the array.
Slot(stk, i) == IF 0 <= i /\ i < Len(stk) THEN stk[i + 1] ELSE Nil
Store(stk, i, v) ==
    [j \in 1..(IF i + 1 > Len(stk) THEN i + 1 ELSE Len(stk)) |->
        IF j = i + 1 THEN v ELSE Slot(stk, j - 1)]
InStack(i) == 0 <= i /\ i < STACK_MAX

FRAME == frames[frameCount]
Code == FRAME.closure.fn.code
Constants == FRAME.closure.fn.constants
\* The k-th byte after the opcode being executed.
Operand(k) == Code[FRAME.ip + 1 + k]
\* The two bytes after the opcode at ip, the first one the high byte.
ReadShort(code, ip) == code[ip + 2] * 256 + code[ip + 3]
READ_SHORT == ReadShort(Code, FRAME.ip)
READ_CONSTANT == Constants[Operand(1) + 1]
Advance(n) == [frames EXCEPT ![frameCount].ip = @ + n]

RECURSIVE JoinList(_, _, _)
RECURSIVE to_string(_, _)
to_string(objs, v) ==
    CASE v.kind = "string" -> v.s
      [] v.kind = "number" -> ToString(v.n)
      [] v.kind = "bool" -> IF v.b THEN "true" ELSE "false"
      [] v.kind = "nil" -> "null"
      [] v.kind = "list" -> "[" \o JoinList(objs, objs[v.ref].elems, ", ") \o "]"
      [] v.kind = "function" -> "<function>"
      [] v.kind = "instance" -> objs[objs[v.ref].klass].name \o " instance"
      [] v.kind = "range" -> ToString(v.start) \o ".." \o ToString(v.end)
      [] v.kind = "native" -> "<native>"
      [] v.kind = "closure" -> "<closure>"
      [] v.kind = "class" -> objs[v.ref].name
      [] v.kind = "bound" -> "<bound method>"
      [] OTHER -> "<unknown>"
JoinList(objs, elems, sep) ==
    IF elems = <<>> THEN ""
    ELSE IF Len(elems) = 1 THEN to_string(objs, elems[1])
    ELSE to_string(objs, elems[1]) \o sep \o JoinList(objs, Tail(elems), sep)

isTruthy(v) ==
    CASE v.kind = "nil" -> FALSE
      [] v.kind = "number" -> v.n # 0
      [] v.kind = "bool" -> v.b
      [] OTHER -> TRUE

\* RyValue::asNumber: 0 for a value that is no number.
asNumber(v) == IF v.kind = "number" THEN v.n ELSE 0

\* closeUpvalues(last) on the list `open`: [open, objs] afterwards.
RECURSIVE closeUpvalues(_, _, _, _)
closeUpvalues(open, uobjs, stk, last) ==
    IF open # <<>> /\ uobjs[Head(open)].location >= last
    THEN closeUpvalues(
             Tail(open),
             [uobjs EXCEPT ![Head(open)] =
                 [isOpen |-> FALSE, location |-> -1,
                  closed |-> Slot(stk, uobjs[Head(open)].location)]],
             stk, last)
    ELSE [open |-> open, objs |-> uobjs]

\* The number of leading entries of the list whose location is above local.
RECURSIVE Above(_, _, _)
Above(open, uobjs, local) ==
    IF open # <<>> /\ uobjs[Head(open)].location > local
    THEN 1 + Above(Tail(open), uobjs, local)
    ELSE 0

\* A captureUpvalue that looks at the head of the list only and links a new
\* upvalue in front of it.
captureUpvalueAtHead(open, uobjs, local) ==
    IF open # <<>> /\ uobjs[Head(open)].location = local
    THEN [open |-> open, objs |-> uobjs, id |-> Head(open)]
    ELSE [open |-> <<Len(uobjs) + 1>> \o open,
          objs |-> Append(uobjs, [isOpen |-> TRUE, location |-> local,
                                  closed |-> Nil]),
          id |-> Len(uobjs) + 1]

\* captureUpvalue(local): [open, objs, id], id the upvalue returned.
captureUpvalue(open, uobjs, local) ==
    LET n == Above(open, uobjs, local)
    IN  IF n < Len(open) /\ uobjs[open[n + 1]].location = local
        THEN [open |-> open, objs |-> uobjs, id |-> open[n + 1]]
        ELSE [open |-> SubSeq(open, 1, n) \o <<Len(uobjs) + 1>>
                         \o SubSeq(open, n + 1, Len(open)),
              objs |-> Append(uobjs, [isOpen |-> TRUE, location |-> local,
                                      closed |-> Nil]),
              id |-> Len(uobjs) + 1]

\* *upvalue->location
Deref(uobjs, stk, id) ==
    IF uobjs[id].isOpen THEN Slot(stk, uobjs[id].location) ELSE uobjs[id].closed

\* No compiler is at an identifier, and what it has not visited yet.
NotVisited == [kind |-> "not visited"]
NoCompiler == [cs |-> <<>>, name |-> "", read |-> NotVisited,
               assign |-> NotVisited, postfix |-> NotVisited]

\* No compiler is emitting a jump.
NoEmitter == [junk |-> <<>>, calls |-> <<>>, phase |-> "none", at |-> -1,
              op |-> -1, target |-> -1, ip |-> -1, top |-> Nil]

\* The VM as VM::VM leaves it, before main does anything with it.
Idle ==
    /\ globals = Natives
    /\ stack = <<>>
    /\ stackTop = 0
    /\ frames = <<>>
    /\ frameCount = 0
    /\ openUpvalues = <<>>
    /\ panicStack = <<>>
    /\ upvalueObjs = <<>>
    /\ objects = <<>>
    /\ pc = "dispatch"
    /\ result = "NONE"
    /\ output = <<>>
    /\ vmSource = ""
    /\ interpretCalls = 0
    /\ exitCode = NoExit
    /\ moduleCache = <<>>
    /\ compilations = [path \in DOMAIN Modules |-> 0]
    /\ fault = "none"
    /\ activation = <<>>
    /\ attempts = <<>>
    /\ nextId = 1

Init ==
    /\ Idle
    /\ command \in Commands
    /\ lexer = Lexer(<<>>)
    /\ repl = Repl
    /\ compiler = NoCompiler
    /\ emitter = NoEmitter

(***************************************************************************)
(* VM::run: one action per case of the dispatch switch.                    *)
(***************************************************************************)
\* Undefined behaviour: the run ends in a state nothing can be said about.
Undefined(what) ==
    /\ result' = "UNDEFINED"
    /\ fault' = what
    /\ UNCHANGED <<vmVars, pc, output, vmSource, interpretCalls, command, frontVars, moduleVars, exitCode,
                   activation, attempts, nextId>>

\* An action that reads or writes the value slots idxs.
Touch(idxs, A) ==
    IF \A i \in idxs : InStack(i) THEN A
    ELSE Undefined("value slot outside the stack array")

\* History: a live frame whose callee slot has been popped has sunk.
Tracked(act) ==
    [i \in DOMAIN act |->
        IF i <= frameCount' /\ act[i].live /\ stackTop' <= frames'[i].slots
        THEN [act[i] EXCEPT !.sank = TRUE]
        ELSE act[i]]
Hist == /\ UNCHANGED <<fault, attempts, nextId>>
        /\ activation' = Tracked(activation)

\* The instruction at FRAME.ip is `name` and the checks at the head of the
\* dispatch loop pass.
AtOp(name) ==
    /\ result = "RUNNING"
    /\ pc = "dispatch"
    /\ InStack(stackTop)
    /\ FRAME.ip >= 0
    /\ FRAME.ip < Len(Code)
    /\ Code[FRAME.ip + 1] = Op(name)

\* The instruction leaves the stack as stk/top and is n bytes long.
Simple(stk, top, n) ==
    /\ stack' = stk
    /\ stackTop' = top
    /\ frames' = Advance(n)
    /\ UNCHANGED <<globals, frameCount, openUpvalues, panicStack,
                   upvalueObjs, objects>>
    /\ UNCHANGED runVars
    /\ Hist

\* runtimeError(msg); goto trigger_panic, with the stack popped down to top.
Raise(top, msg, n) ==
    Touch({top},
          /\ stack' = Store(stack, top, StrV(msg))
          /\ stackTop' = top + 1
          /\ frames' = Advance(n)
          /\ pc' = "trigger_panic"
          /\ UNCHANGED <<globals, frameCount, openUpvalues, panicStack,
                         upvalueObjs, objects>>
          /\ UNCHANGED <<result, output, vmSource, interpretCalls, command, frontVars, moduleVars, exitCode>>
          /\ Hist)

\* The checks at the head of the dispatch loop fail.
StackCheck ==
    /\ result = "RUNNING"
    /\ pc = "dispatch"
    /\ ~InStack(stackTop)
    /\ IF stackTop < 0
       THEN Raise(stackTop, "Stack Underflow!", 0)
       ELSE Raise(stackTop, "Stack Overflow!", 0)

\* READ_BYTE past the end of the chunk's code.
FetchOutsideChunk ==
    /\ result = "RUNNING"
    /\ pc = "dispatch"
    /\ InStack(stackTop)
    /\ ~(FRAME.ip >= 0 /\ FRAME.ip < Len(Code))
    /\ Undefined("instruction fetch outside the chunk")

OP_POP ==
    /\ AtOp("OP_POP")
    /\ Touch({stackTop - 1}, Simple(stack, stackTop - 1, 1))

OP_NULL ==
    /\ AtOp("OP_NULL")
    /\ Simple(Store(stack, stackTop, Nil), stackTop + 1, 1)

OP_TRUE ==
    /\ AtOp("OP_TRUE")
    /\ Simple(Store(stack, stackTop, BoolV(TRUE)), stackTop + 1, 1)

OP_FALSE ==
    /\ AtOp("OP_FALSE")
    /\ Simple(Store(stack, stackTop, BoolV(FALSE)), stackTop + 1, 1)

\* RyValue::operator-: null unless the value is a number.
negated(v) == IF v.kind = "number" THEN NumV(0 - v.n) ELSE Nil
\* RyValue::operator!: null unless the value is a bool.
not(v) == IF v.kind = "bool" THEN BoolV(~v.b) ELSE Nil

OP_COPY ==
    /\ AtOp("OP_COPY")
    /\ Touch({stackTop - 1},
             Simple(Store(stack, stackTop, Slot(stack, stackTop - 1)), stackTop + 1, 1))

OP_NEGATE ==
    /\ AtOp("OP_NEGATE")
    /\ Touch({stackTop - 1},
             Simple(Store(stack, stackTop - 1, negated(Slot(stack, stackTop - 1))),
                    stackTop, 1))

OP_NOT ==
    /\ AtOp("OP_NOT")
    /\ Touch({stackTop - 1},
             Simple(Store(stack, stackTop - 1, not(Slot(stack, stackTop - 1))),
                    stackTop, 1))

OP_CONSTANT ==
    /\ AtOp("OP_CONSTANT")
    /\ Simple(Store(stack, stackTop, READ_CONSTANT), stackTop + 1, 2)

OP_ADD ==
    /\ AtOp("OP_ADD")
    /\ Touch({stackTop - 1, stackTop - 2},
         LET b == Slot(stack, stackTop - 1)
             a == Slot(stack, stackTop - 2)
         IN  IF a.kind = "list"
             THEN /\ objects' = Append(objects,
                        [kind |-> "list",
                         elems |-> IF b.kind = "list"
                                   THEN objects[a.ref].elems \o objects[b.ref].elems
                                   ELSE Append(objects[a.ref].elems, b)])
                  /\ stack' = Store(stack, stackTop - 2, ListV(Len(objects) + 1))
                  /\ stackTop' = stackTop - 1
                  /\ frames' = Advance(1)
                  /\ UNCHANGED <<globals, frameCount, openUpvalues, panicStack,
                                 upvalueObjs>>
                  /\ UNCHANGED runVars
                  /\ Hist
             ELSE IF a.kind = "number" /\ b.kind = "number"
             THEN Simple(Store(stack, stackTop - 2, NumV(a.n + b.n)),
                         stackTop - 1, 1)
             ELSE IF a.kind = "string" \/ b.kind = "string"
             THEN Simple(Store(stack, stackTop - 2,
                               StrV(to_string(objects, a) \o to_string(objects, b))),
                         stackTop - 1, 1)
             ELSE Raise(stackTop - 2,
                        "Operands must be numbers, strings, or lists.", 1))

OP_DIVIDE ==
    /\ AtOp("OP_DIVIDE")
    /\ Touch({stackTop - 1, stackTop - 2},
         LET b == Slot(stack, stackTop - 1)
             a == Slot(stack, stackTop - 2)
         IN  IF asNumber(b) = 0
             THEN Raise(stackTop - 2, "Division by zero", 1)
             ELSE IF a.kind = "number"
             THEN Simple(Store(stack, stackTop - 2, NumV(a.n \div b.n)),
                         stackTop - 1, 1)
             ELSE Simple(Store(stack, stackTop - 2,
                               StrV(to_string(objects, a) \o to_string(objects, b))),
                         stackTop - 1, 1))

OP_GET_LOCAL ==
    /\ AtOp("OP_GET_LOCAL")
    /\ Touch({FRAME.slots + Operand(1)},
             Simple(Store(stack, stackTop, Slot(stack, FRAME.slots + Operand(1))),
                    stackTop + 1, 2))

OP_SET_LOCAL ==
    /\ AtOp("OP_SET_LOCAL")
    /\ Touch({stackTop - 1, FRAME.slots + Operand(1)},
             Simple(Store(stack, FRAME.slots + Operand(1), Slot(stack, stackTop - 1)),
                    stackTop - 1, 2))

OP_EQUAL ==
    /\ AtOp("OP_EQUAL")
    /\ Touch({stackTop - 1, stackTop - 2},
         Simple(Store(stack, stackTop - 2,
                      BoolV(Slot(stack, stackTop - 2) = Slot(stack, stackTop - 1))),
                stackTop - 1, 1))

\* RyValue::operator<: null unless both are numbers.
OP_LESS ==
    /\ AtOp("OP_LESS")
    /\ Touch({stackTop - 1, stackTop - 2},
         LET b == Slot(stack, stackTop - 1)
             a == Slot(stack, stackTop - 2)
         IN  Simple(Store(stack, stackTop - 2,
                          IF a.kind = "number" /\ b.kind = "number"
                          THEN BoolV(a.n < b.n) ELSE Nil),
                    stackTop - 1, 1))

OP_JUMP_IF_FALSE ==
    /\ AtOp("OP_JUMP_IF_FALSE")
    /\ Touch({stackTop - 1},
         IF isTruthy(Slot(stack, stackTop - 1))
         THEN Simple(stack, stackTop, 3)
         ELSE Simple(stack, stackTop, 3 + READ_SHORT))

OP_JUMP ==
    /\ AtOp("OP_JUMP")
    /\ Simple(stack, stackTop, 3 + READ_SHORT)

OP_LOOP ==
    /\ AtOp("OP_LOOP")
    /\ Simple(stack, stackTop, 3 - READ_SHORT)

OP_DEFINE_GLOBAL ==
    /\ AtOp("OP_DEFINE_GLOBAL")
    /\ Touch({stackTop - 1},
         /\ globals' = (to_string(objects, READ_CONSTANT) :> Slot(stack, stackTop - 1))
                          @@ globals
         /\ stackTop' = stackTop - 1
         /\ frames' = Advance(2)
         /\ UNCHANGED <<stack, frameCount, openUpvalues, panicStack,
                        upvalueObjs, objects>>
         /\ UNCHANGED runVars
         /\ Hist)

\* The "Did you mean" suggestion the message may carry is left out.
OP_GET_GLOBAL ==
    /\ AtOp("OP_GET_GLOBAL")
    /\ LET name == to_string(objects, READ_CONSTANT)
       IN  IF name \in DOMAIN globals
           THEN Simple(Store(stack, stackTop, globals[name]), stackTop + 1, 2)
           ELSE Raise(stackTop, "Undefined variable '" \o name \o "'.", 2)

OP_SET_GLOBAL ==
    /\ AtOp("OP_SET_GLOBAL")
    /\ LET name == to_string(objects, READ_CONSTANT)
       IN  IF name \in DOMAIN globals
           THEN Touch({stackTop - 1},
                  /\ globals' = [globals EXCEPT ![name] = Slot(stack, stackTop - 1)]
                  /\ stackTop' = stackTop - 1
                  /\ frames' = Advance(2)
                  /\ UNCHANGED <<stack, frameCount, openUpvalues, panicStack,
                                 upvalueObjs, objects>>
                  /\ UNCHANGED runVars
                  /\ Hist)
           ELSE Raise(stackTop, "Undefined variable '" \o name \o "'.", 2)

OP_PANIC ==
    /\ AtOp("OP_PANIC")
    /\ pc' = "trigger_panic"
    /\ frames' = Advance(1)
    /\ UNCHANGED <<globals, stack, stackTop, frameCount, openUpvalues,
                   panicStack, upvalueObjs, objects>>
    /\ UNCHANGED <<result, output, vmSource, interpretCalls, command, frontVars, moduleVars, exitCode>>
    /\ Hist

Put(seq, i, v) == IF i <= Len(seq) THEN [seq EXCEPT ![i] = v] ELSE Append(seq, v)

\* The instruction leaves stack, heap and stdout as given, and raises a panic
\* when panicking.
Proceed(stk, top, n, objs, out, panicking) ==
    /\ stack' = stk
    /\ stackTop' = top
    /\ frames' = Advance(n)
    /\ objects' = objs
    /\ output' = out
    /\ pc' = IF panicking THEN "trigger_panic" ELSE pc
    /\ UNCHANGED <<globals, frameCount, openUpvalues, panicStack, upvalueObjs>>
    /\ UNCHANGED <<result, vmSource, interpretCalls, command, frontVars, moduleVars, exitCode>>
    /\ Hist

\* exit(status): the process ends.
Exit(status) ==
    /\ result' = "EXIT"
    /\ exitCode' = status
    /\ UNCHANGED <<vmVars, pc, output, vmSource, interpretCalls, command, frontVars, moduleVars>>
    /\ UNCHANGED histVars

ArityMessage(arity, argCount) ==
    "Expected " \o ToString(arity) \o " arguments but got "
        \o ToString(argCount) \o "."

\* ry_out: the arguments, separated by spaces, on one line.
RECURSIVE JoinArgs(_, _, _)
JoinArgs(objs, args, n) ==
    IF n = 0 THEN ""
    ELSE IF n = 1 THEN to_string(objs, Slot(stack, args))
    ELSE to_string(objs, Slot(stack, args)) \o " " \o JoinArgs(objs, args + 1, n - 1)

\* ry_pop looks for its receiver in args[0], args[-1], ... args[-5].
PopScan(args) == {k \in 0..5 : InStack(args - k) /\ Slot(stack, args - k).kind = "list"}
PopFirst(args) == CHOOSE k \in PopScan(args) : \A j \in PopScan(args) : k <= j
PopOutside(args) ==
    \E k \in 0..5 : /\ ~InStack(args - k)
                    /\ \A j \in PopScan(args) : k < j

\* nativeObj->function(argCount, args, globals): the value returned, the heap
\* and stdout afterwards, the runtime_error thrown.  input, clear, type and
\* use are not called by any script here and answer nil.
CallNative(name, argCount, args) ==
    LET quiet == [ret |-> Nil, objs |-> objects, out |-> output, threw |-> "",
                  undefined |-> FALSE, exits |-> FALSE]
    IN  CASE name = "out" ->
               [quiet EXCEPT !.out = Append(output, JoinArgs(objects, args, argCount))]
          [] name = "clock" -> [quiet EXCEPT !.ret = NumV(0)]
          [] name = "exit" -> [quiet EXCEPT !.exits = TRUE]
          [] name = "pop" ->
               IF PopOutside(args) THEN [quiet EXCEPT !.undefined = TRUE]
               ELSE IF PopScan(args) = {}
               THEN [quiet EXCEPT !.threw = "pop() called on non-list."]
               ELSE LET ref == Slot(stack, args - PopFirst(args)).ref
                        elems == objects[ref].elems
                    IN  IF elems = <<>>
                        THEN [quiet EXCEPT !.threw = "Empty list pop."]
                        ELSE [quiet EXCEPT
                                !.ret = elems[Len(elems)],
                                !.objs = [objects EXCEPT ![ref].elems =
                                            SubSeq(elems, 1, Len(elems) - 1)]]
          [] OTHER -> quiet

\* frames[frameCount++] = {closure, code, stackTop - argCount - 1}, the callee
\* slot holding what stk holds; msg is the arity error raised after the push.
EnterFrame(closure, argCount, kind, stk, objs, msg) ==
    IF frameCount >= FRAMES_MAX
    THEN Undefined("frame written past the frames array")
    ELSE /\ frames' = Put(Advance(2), frameCount + 1,
                          [closure |-> closure, ip |-> 0,
                           slots |-> stackTop - argCount - 1])
         /\ frameCount' = frameCount + 1
         /\ objects' = objs
         /\ IF msg = ""
            THEN /\ stack' = stk
                 /\ stackTop' = stackTop
                 /\ pc' = pc
            ELSE /\ stack' = Store(stk, stackTop, StrV(msg))
                 /\ stackTop' = stackTop + 1
                 /\ pc' = "trigger_panic"
         /\ activation' =
              Put(Tracked(activation), frameCount + 1,
                  [id |-> nextId, kind |-> kind, entryTop |-> stackTop,
                   argc |-> argCount, arity |-> closure.fn.arity,
                   below |-> [i \in 1..(stackTop - argCount - 1) |-> Slot(stack, i - 1)],
                   upw |-> {}, sank |-> FALSE, live |-> TRUE, returned |-> FALSE])
         /\ nextId' = nextId + 1
         /\ UNCHANGED <<globals, openUpvalues, panicStack, upvalueObjs>>
         /\ UNCHANGED <<result, output, vmSource, interpretCalls, command, frontVars, moduleVars, exitCode, fault, attempts>>

OP_CALL ==
    /\ AtOp("OP_CALL")
    /\ LET argCount == Operand(1)
           calleeSlot == stackTop - 1 - argCount
           callee == Slot(stack, calleeSlot)
       IN  Touch({calleeSlot},
             CASE callee.kind = "native" ->
                    LET r == CallNative(callee.name, argCount, stackTop - argCount)
                    IN  IF r.undefined
                        THEN Undefined("native reads outside the stack array")
                        ELSE IF r.exits THEN Exit(0)
                        ELSE IF r.threw # ""
                        THEN Raise(stackTop, r.threw, 2)
                        ELSE Proceed(Store(stack, calleeSlot, r.ret), calleeSlot + 1,
                                     2, r.objs, r.out, FALSE)
               [] callee.kind = "closure" ->
                    IF argCount # callee.fn.arity
                    THEN Raise(stackTop, ArityMessage(callee.fn.arity, argCount), 2)
                    ELSE EnterFrame(callee, argCount, "closure", stack, objects, "")
               [] callee.kind = "function" ->
                    IF argCount # callee.fn.arity
                    THEN Raise(stackTop, ArityMessage(callee.fn.arity, argCount), 2)
                    ELSE EnterFrame(ClosureV(callee.fn, <<>>), argCount, "function",
                                    stack, objects, "")
               [] callee.kind = "class" ->
                    LET objs == Append(objects, [kind |-> "instance",
                                                 klass |-> callee.ref,
                                                 fields |-> <<>>])
                        stk == Store(stack, calleeSlot, InstanceV(Len(objects) + 1))
                        methods == objects[callee.ref].methods
                    IN  IF "init" \in DOMAIN methods
                        THEN EnterFrame(methods["init"], argCount, "init", stk, objs,
                                        IF argCount # methods["init"].fn.arity
                                        THEN ArityMessage(methods["init"].fn.arity, argCount)
                                        ELSE "")
                        ELSE IF argCount # 0
                        THEN Proceed(Store(stk, stackTop, StrV(ArityMessage(0, argCount))),
                                     stackTop + 1, 2, objs, output, TRUE)
                        ELSE Proceed(stk, stackTop, 2, objs, output, FALSE)
               [] callee.kind = "bound" ->
                    EnterFrame(callee.method, argCount, "bound",
                               Store(stack, calleeSlot, callee.receiver), objects,
                               IF argCount # callee.method.fn.arity
                               THEN ArityMessage(callee.method.fn.arity, argCount)
                               ELSE "")
               [] OTHER -> Raise(stackTop, "Can only call functions and classes.", 2))

OP_RETURN ==
    /\ AtOp("OP_RETURN")
    /\ Touch({stackTop - 1},
         LET slots == FRAME.slots
             value == IF FRAME.closure.fn.name = "init"
                      THEN Slot(stack, slots)
                      ELSE Slot(stack, stackTop - 1)
             closed == closeUpvalues(openUpvalues, upvalueObjs, stack, slots)
         IN  /\ openUpvalues' = closed.open
             /\ upvalueObjs' = closed.objs
             /\ frameCount' = frameCount - 1
             /\ frames' = Advance(1)
             /\ IF frameCount = 1
                THEN /\ stackTop' = IF stackTop - 1 > 0 THEN stackTop - 2
                                    ELSE stackTop - 1
                     /\ stack' = stack
                     /\ result' = "INTERPRET_OK"
                ELSE /\ stackTop' = slots + 1
                     /\ stack' = Store(stack, slots, value)
                     /\ result' = result
             /\ activation' = [Tracked(activation) EXCEPT ![frameCount].live = FALSE,
                                                          ![frameCount].returned = TRUE]
             /\ UNCHANGED <<globals, panicStack, objects>>
             /\ UNCHANGED <<pc, output, vmSource, interpretCalls, command, frontVars, moduleVars, exitCode>>
             /\ UNCHANGED <<fault, attempts, nextId>>)

\* The code at the label trigger_panic, entered from OP_PANIC and from every
\* runtimeError.
TriggerPanic ==
    /\ result = "RUNNING"
    /\ pc = "trigger_panic"
    /\ Touch({stackTop - 1},
         LET message == Slot(stack, stackTop - 1)
             text == IF message.kind = "nil" THEN "Unknown Panic"
                     ELSE to_string(objects, message)
         IN  IF panicStack = <<>>
             THEN \* chunk.lines[ip - code - 1] is read for the report
                  \E abort \in (IF FRAME.ip - 1 >= 0 /\ FRAME.ip - 1 < Len(Code)
                                THEN {FALSE} ELSE BOOLEAN) :
                     IF abort
                     THEN Undefined("line table read outside the chunk")
                     ELSE /\ stackTop' = 0
                          /\ frameCount' = 0
                          /\ result' = "INTERPRET_RUNTIME_ERROR"
                          /\ pc' = "dispatch"
                          /\ activation' = [i \in DOMAIN activation |->
                                              [activation[i] EXCEPT !.live = FALSE]]
                          /\ UNCHANGED <<globals, stack, frames, openUpvalues,
                                         panicStack, upvalueObjs, objects>>
                          /\ UNCHANGED <<output, vmSource, interpretCalls, command, frontVars, moduleVars, exitCode>>
                          /\ UNCHANGED <<fault, attempts, nextId>>
             ELSE LET block == panicStack[Len(panicStack)]
                      closed == closeUpvalues(openUpvalues, upvalueObjs, stack,
                                              block.stackDepth)
                  IN  /\ panicStack' = SubSeq(panicStack, 1, Len(panicStack) - 1)
                      /\ frameCount' = block.frameDepth
                      /\ openUpvalues' = closed.open
                      /\ upvalueObjs' = closed.objs
                      /\ stack' = Store(stack, block.stackDepth, StrV(text))
                      /\ stackTop' = block.stackDepth + 1
                      /\ frames' = [frames EXCEPT ![block.frameDepth].ip = block.handlerIP]
                      /\ pc' = "dispatch"
                      /\ activation' = [i \in DOMAIN activation |->
                                          IF i > block.frameDepth
                                          THEN [activation[i] EXCEPT !.live = FALSE]
                                          ELSE Tracked(activation)[i]]
                      /\ attempts' = SubSeq(attempts, 1, Len(attempts) - 1)
                      /\ UNCHANGED <<globals, objects>>
                      /\ UNCHANGED <<result, output, vmSource, interpretCalls, command, frontVars, moduleVars, exitCode>>
                      /\ UNCHANGED <<fault, nextId>>)

\* frames[frameCount++] is written without a test against FRAMES_MAX.  The
\* activation of a module frame keeps the importing activation and the
\* stack top the OP_IMPORT found.
OP_IMPORT ==
    /\ AtOp("OP_IMPORT")
    /\ Touch({stackTop - 1},
         LET fileNameValue == Slot(stack, stackTop - 1)
             fileName == findModulePath(to_string(objects, fileNameValue))
             cached == fileName \in DOMAIN moduleCache
         IN  IF fileNameValue.kind # "string"
             THEN Raise(stackTop - 1, "Import path must be a string.", 1)
             ELSE IF ~cached /\ fileName \notin DOMAIN Modules
             THEN Raise(stackTop - 1,
                        "Could not open script file '" \o fileName \o "'.", 1)
             ELSE IF frameCount >= FRAMES_MAX
             THEN Undefined("import frame written past the frames array")
             ELSE LET closure ==
                        IF cached THEN moduleCache[fileName]
                        ELSE ClosureV([compile(Modules[fileName])
                                           EXCEPT !.name = fileName], <<>>)
                  IN  /\ moduleCache' = IF cached THEN moduleCache
                                        ELSE (fileName :> closure) @@ moduleCache
                      /\ compilations' =
                            IF cached THEN compilations
                            ELSE [compilations EXCEPT ![fileName] = @ + 1]
                      /\ stack' = Store(stack, stackTop - 1, closure)
                      /\ UNCHANGED <<globals, stackTop, openUpvalues, panicStack,
                                     upvalueObjs, objects>>
                      /\ frames' = Put(Advance(1), frameCount + 1,
                                       [closure |-> closure, ip |-> 0,
                                        slots |-> stackTop - 1])
                      /\ frameCount' = frameCount + 1
                      /\ activation' =
                            Put(Tracked(activation), frameCount + 1,
                                [id |-> nextId, kind |-> "module",
                                 entryTop |-> stackTop, argc |-> 0, arity |-> 0,
                                 below |-> [i \in 1..(stackTop - 1) |-> Slot(stack, i - 1)],
                                 upw |-> {}, sank |-> FALSE, live |-> TRUE,
                                 returned |-> FALSE,
                                 importer |-> activation[frameCount].id])
                      /\ nextId' = nextId + 1
                      /\ UNCHANGED <<pc, result, output, vmSource, interpretCalls,
                                     command, exitCode, frontVars, fault, attempts>>)

OP_ATTEMPT ==
    /\ AtOp("OP_ATTEMPT")
    /\ panicStack' = Append(panicStack,
                            [stackDepth |-> stackTop,
                             frameDepth |-> frameCount,
                             handlerIP |-> FRAME.ip + 3 + READ_SHORT])
    /\ attempts' = Append(attempts,
                          [frame |-> activation[frameCount].id,
                           attemptIP |-> FRAME.ip,
                           size |-> Len(panicStack)])
    /\ frames' = Advance(3)
    /\ UNCHANGED <<globals, stack, stackTop, frameCount, openUpvalues,
                   upvalueObjs, objects>>
    /\ UNCHANGED runVars
    /\ UNCHANGED <<fault, nextId>>
    /\ activation' = Tracked(activation)

OP_END_ATTEMPT ==
    /\ AtOp("OP_END_ATTEMPT")
    /\ IF panicStack # <<>>
       THEN /\ panicStack' = SubSeq(panicStack, 1, Len(panicStack) - 1)
            /\ attempts' = SubSeq(attempts, 1, Len(attempts) - 1)
            /\ frames' = Advance(1)
            /\ UNCHANGED <<globals, stack, stackTop, frameCount, openUpvalues,
                           upvalueObjs, objects>>
            /\ UNCHANGED runVars
            /\ UNCHANGED <<fault, nextId>>
            /\ activation' = Tracked(activation)
       ELSE Raise(stackTop, "Cannot end attempt if panicStack is empty.", 1)

\* The instruction changes the heap only, besides the stack.
OP_BUILD_RANGE_LIST ==
    /\ AtOp("OP_BUILD_RANGE_LIST")
    /\ Touch({stackTop - 1, stackTop - 2},
             Simple(Store(stack, stackTop - 2,
                          RangeV(asNumber(Slot(stack, stackTop - 2)),
                                 asNumber(Slot(stack, stackTop - 1)))),
                    stackTop - 1, 1))

OP_BUILD_LIST ==
    /\ AtOp("OP_BUILD_LIST")
    /\ LET count == Operand(1)
       IN  Touch({stackTop - count} \cup {stackTop - 1 : i \in 1..count},
             Proceed(Store(stack, stackTop - count, ListV(Len(objects) + 1)),
                     stackTop - count + 1, 2,
                     Append(objects,
                            [kind |-> "list",
                             elems |-> [i \in 1..count |->
                                          Slot(stack, stackTop - count + i - 1)]]),
                     output, FALSE))

\* A map is the sequence of its entries, one per key.
find(entries, key) ==
    IF \E i \in 1..Len(entries) : entries[i].key = key
    THEN CHOOSE i \in 1..Len(entries) : entries[i].key = key
    ELSE 0
\* (*map)[key] = value
insert(entries, key, value) ==
    IF find(entries, key) # 0
    THEN [entries EXCEPT ![find(entries, key)].value = value]
    ELSE Append(entries, [key |-> key, value |-> value])
\* The loop of OP_BUILD_MAP: the pairs are popped from the top down.
RECURSIVE popPairs(_, _, _, _)
popPairs(stk, top, count, entries) ==
    IF count = 0 THEN entries
    ELSE popPairs(stk, top - 2, count - 1,
                  insert(entries, Slot(stk, top - 2), Slot(stk, top - 1)))

OP_BUILD_MAP ==
    /\ AtOp("OP_BUILD_MAP")
    /\ LET count == Operand(1)
       IN  Touch({stackTop - 2 * count} \cup {stackTop - i : i \in 1..(2 * count)},
             Proceed(Store(stack, stackTop - 2 * count, MapV(Len(objects) + 1)),
                     stackTop - 2 * count + 1, 2,
                     Append(objects,
                            [kind |-> "map",
                             entries |-> popPairs(stack, stackTop, count, <<>>)]),
                     output, FALSE))

\* The characters of the strings the scripts index.
Characters == [ab |-> <<"a", "b">>]

\* A bounds test that takes the end of the range in.
isInBoundsInclusive(range, current) ==
    IF range.start < range.end THEN current <= range.end
    ELSE current >= range.end

\* bool isInBounds of the range branch.
isInBounds(range, current) ==
    IF range.start < range.end THEN current < range.end
    ELSE current > range.end

OP_FOR_EACH_NEXT ==
    /\ AtOp("OP_FOR_EACH_NEXT")
    /\ asNumber(Slot(stack, stackTop - 1)) <= MaxEachIndex
    /\ Touch({stackTop - 1, stackTop - 2},
         LET offset == READ_SHORT
             indexValue == Slot(stack, stackTop - 1)
             collectionValue == Slot(stack, stackTop - 2)
             index == asNumber(indexValue)
             pushNext(v) == Simple(Store(Store(stack, stackTop - 1, NumV(index + 1)),
                                     stackTop, v),
                               stackTop + 1, 3)
         IN  IF indexValue.kind # "number" THEN Exit(1)
             ELSE IF collectionValue.kind = "range"
             THEN LET current == collectionValue.start + index
                  IN  IF isInBounds(collectionValue, current) THEN pushNext(NumV(current))
                      ELSE Simple(stack, stackTop, 3 + offset)
             ELSE IF collectionValue.kind = "list"
             THEN LET list == objects[collectionValue.ref].elems
                  IN  IF index >= 0 /\ index < Len(list) THEN pushNext(list[index + 1])
                      ELSE Simple(stack, stackTop, 3 + offset)
             ELSE Raise(stackTop, "Can only use 'each' on lists or ranges.", 3))

\* Lists only: no script here indexes a map or a string.
OP_GET_INDEX ==
    /\ AtOp("OP_GET_INDEX")
    /\ Touch({stackTop - 1, stackTop - 2},
         LET index == Slot(stack, stackTop - 1)
             object == Slot(stack, stackTop - 2)
         IN  IF object.kind = "list"
             THEN IF index.kind # "number"
                  THEN Raise(stackTop - 2, "List index must be a number.", 1)
                  ELSE IF index.n >= 0 /\ index.n < Len(objects[object.ref].elems)
                  THEN Simple(Store(stack, stackTop - 2,
                                    objects[object.ref].elems[index.n + 1]),
                              stackTop - 1, 1)
                  ELSE Raise(stackTop - 2, "List index out of bounds.", 1)
             ELSE IF object.kind = "map"
             THEN IF find(objects[object.ref].entries, index) # 0
                  THEN Simple(Store(stack, stackTop - 2,
                                    objects[object.ref].entries[
                                        find(objects[object.ref].entries, index)].value),
                              stackTop - 1, 1)
                  ELSE Raise(stackTop - 2,
                             "Key '" \o to_string(objects, index)
                                 \o "' not found in map.", 1)
             ELSE IF object.kind = "string"
             THEN IF index.kind # "number"
                  THEN Raise(stackTop - 2, "String index must be a number.", 1)
                  ELSE IF index.n >= 0 /\ index.n < Len(Characters[object.s])
                  THEN Simple(Store(stack, stackTop - 2,
                                    StrV(Characters[object.s][index.n + 1])),
                              stackTop - 1, 1)
                  ELSE Raise(stackTop - 2, "String index out of bounds.", 1)
             ELSE Raise(stackTop - 2, "Can only index lists, maps, and strings.", 1))

OP_SET_INDEX ==
    /\ AtOp("OP_SET_INDEX")
    /\ Touch({stackTop - 1, stackTop - 2, stackTop - 3},
         LET value == Slot(stack, stackTop - 1)
             index == Slot(stack, stackTop - 2)
             object == Slot(stack, stackTop - 3)
         IN  IF object.kind = "list"
             THEN IF index.kind # "number"
                  THEN Raise(stackTop - 3, "List index must be a number.", 1)
                  ELSE IF index.n >= 0 /\ index.n < Len(objects[object.ref].elems)
                  THEN Proceed(stack, stackTop - 3, 1,
                               [objects EXCEPT ![object.ref].elems[index.n + 1] = value],
                               output, FALSE)
                  ELSE Undefined("list element written outside the list")
             ELSE IF object.kind = "string"
             THEN Raise(stackTop - 3,
                        "Strings are immutable and do not support index assignment.", 1)
             ELSE IF object.kind = "instance"
             THEN Raise(stackTop - 3, "Instances do not support index assignment.", 1)
             ELSE Raise(stackTop - 3, "Only lists support index assignment.", 1))

OP_GET_UPVALUE ==
    /\ AtOp("OP_GET_UPVALUE")
    /\ IF Operand(1) >= Len(FRAME.closure.ups)
       THEN Undefined("upvalue slot outside the closure")
       ELSE Simple(Store(stack, stackTop,
                         Deref(upvalueObjs, stack, FRAME.closure.ups[Operand(1) + 1])),
                   stackTop + 1, 2)

OP_SET_UPVALUE ==
    /\ AtOp("OP_SET_UPVALUE")
    /\ IF Operand(1) >= Len(FRAME.closure.ups)
       THEN Undefined("upvalue slot outside the closure")
       ELSE Touch({stackTop - 1},
              LET id == FRAME.closure.ups[Operand(1) + 1]
                  value == Slot(stack, stackTop - 1)
                  location == upvalueObjs[id].location
              IN  /\ IF upvalueObjs[id].isOpen
                     THEN /\ stack' = Store(stack, location, value)
                          /\ upvalueObjs' = upvalueObjs
                          /\ activation' =
                               [i \in DOMAIN activation |->
                                  IF i <= frameCount /\ location < frames[i].slots
                                  THEN [activation[i] EXCEPT !.upw = @ \cup {location}]
                                  ELSE activation[i]]
                     ELSE /\ stack' = stack
                          /\ upvalueObjs' = [upvalueObjs EXCEPT ![id].closed = value]
                          /\ activation' = activation
                  /\ frames' = Advance(2)
                  /\ UNCHANGED <<globals, stackTop, frameCount, openUpvalues,
                                 panicStack, objects>>
                  /\ UNCHANGED runVars
                  /\ UNCHANGED <<fault, attempts, nextId>>)

\* The (isLocal, index) pairs i..count of an OP_CLOSURE: [open, objs, ups].
RECURSIVE CaptureAll(_, _, _, _, _)
CaptureAll(i, count, open, uobjs, ups) ==
    IF i > count THEN [open |-> open, objs |-> uobjs, ups |-> ups]
    ELSE LET isLocal == Operand(2 * i)
             index == Operand(2 * i + 1)
         IN  IF isLocal # 0
             THEN LET c == captureUpvalue(open, uobjs, FRAME.slots + index)
                  IN  CaptureAll(i + 1, count, c.open, c.objs, Append(ups, c.id))
             ELSE CaptureAll(i + 1, count, open, uobjs,
                             Append(ups, FRAME.closure.ups[index + 1]))

OP_CLOSURE ==
    /\ AtOp("OP_CLOSURE")
    /\ LET function == READ_CONSTANT.fn
           c == CaptureAll(1, function.upvalueCount, openUpvalues, upvalueObjs, <<>>)
       IN  /\ stack' = Store(stack, stackTop, ClosureV(function, c.ups))
           /\ stackTop' = stackTop + 1
           /\ openUpvalues' = c.open
           /\ upvalueObjs' = c.objs
           /\ frames' = Advance(2 + 2 * function.upvalueCount)
           /\ UNCHANGED <<globals, frameCount, panicStack, objects>>
           /\ UNCHANGED runVars
           /\ Hist

OP_CLASS ==
    /\ AtOp("OP_CLASS")
    /\ Proceed(Store(stack, stackTop, ClassV(Len(objects) + 1)), stackTop + 1, 2,
               Append(objects, [kind |-> "class",
                                name |-> to_string(objects, READ_CONSTANT),
                                superclass |-> 0,
                                methods |-> <<>>]),
               output, FALSE)

\* peek(1) is tested and copied, peek(0) is the class written to; asClass
\* returns nullptr for a value that is no class.
OP_INHERIT ==
    /\ AtOp("OP_INHERIT")
    /\ Touch({stackTop - 1, stackTop - 2},
         LET superclassValue == Slot(stack, stackTop - 2)
             subclass == Slot(stack, stackTop - 1)
         IN  IF superclassValue.kind # "class"
             THEN Raise(stackTop, "Superclass must be a class.", 1)
             ELSE IF subclass.kind # "class"
             THEN Undefined("superclass stored through a null class")
             ELSE Proceed(stack, stackTop - 1, 1,
                          [objects EXCEPT ![subclass.ref].superclass =
                              superclassValue.ref],
                          output, FALSE))

OP_METHOD ==
    /\ AtOp("OP_METHOD")
    /\ Touch({stackTop - 1, stackTop - 2},
         LET method == Slot(stack, stackTop - 1)
             klass == Slot(stack, stackTop - 2)
         IN  IF klass.kind # "class"
             THEN Undefined("method stored through a null class")
             ELSE Proceed(stack, stackTop - 1, 2,
                          [objects EXCEPT ![klass.ref].methods =
                              (to_string(objects, READ_CONSTANT) :> method) @@ @],
                          output, FALSE))

\* The length of a string is not modelled: no script here takes it.
OP_GET_PROPERTY ==
    /\ AtOp("OP_GET_PROPERTY")
    /\ Touch({stackTop - 1},
         LET propertyName == to_string(objects, READ_CONSTANT)
             object == Slot(stack, stackTop - 1)
             replace(v) == Simple(Store(stack, stackTop - 1, v), stackTop, 2)
         IN  IF propertyName = "len"
             THEN IF object.kind = "list"
                  THEN replace(NumV(Len(objects[object.ref].elems)))
                  ELSE IF object.kind = "map"
                  THEN replace(NumV(Len(objects[object.ref].entries)))
                  ELSE Simple(stack, stackTop - 1, 2)
             ELSE IF propertyName = "pop"
             THEN Simple(Store(stack, stackTop, NativeV("pop", 0)), stackTop + 1, 2)
             ELSE IF object.kind = "map"
                     /\ find(objects[object.ref].entries, READ_CONSTANT) # 0
             THEN replace(objects[object.ref].entries[
                              find(objects[object.ref].entries, READ_CONSTANT)].value)
             ELSE IF object.kind = "instance"
                     /\ propertyName \in DOMAIN objects[object.ref].fields
             THEN replace(objects[object.ref].fields[propertyName])
             ELSE IF object.kind = "instance"
                     /\ propertyName \in DOMAIN objects[objects[object.ref].klass].methods
             THEN replace(BoundMethodV(object,
                            objects[objects[object.ref].klass].methods[propertyName]))
             ELSE IF object.kind = "class"
                     /\ propertyName \in DOMAIN objects[object.ref].methods
             THEN replace(objects[object.ref].methods[propertyName])
             ELSE Raise(stackTop - 1,
                        "Property '" \o propertyName \o "' not found on type.", 2))

OP_SET_PROPERTY ==
    /\ AtOp("OP_SET_PROPERTY")
    /\ Touch({stackTop - 1, stackTop - 2},
         LET value == Slot(stack, stackTop - 1)
             object == Slot(stack, stackTop - 2)
         IN  IF object.kind = "instance"
             THEN Proceed(Store(stack, stackTop - 2, value), stackTop - 1, 2,
                          [objects EXCEPT ![object.ref].fields =
                              (to_string(objects, READ_CONSTANT) :> value) @@ @],
                          output, FALSE)
             ELSE Raise(stackTop - 1, "Only instances have fields.", 2))

(***************************************************************************)
(* main.cpp interpret(source) followed by VM::interpret(function)          *)
(***************************************************************************)
Interpret(name) ==
    /\ result \in {"NONE", "INTERPRET_OK", "INTERPRET_RUNTIME_ERROR"}
    /\ exitCode = NoExit
    /\ interpretCalls < MaxInterpretCalls
    /\ command = "run" => interpretCalls = 0
    /\ name \in (IF interpretCalls = 0 THEN DOMAIN Scripts ELSE FollowUps)
    /\ compileReturns(Scripts[name])
    /\ vmSource' = name
    /\ interpretCalls' = interpretCalls + 1
    /\ stack' = Store(stack, 0, ClosureV(compile(Scripts[name]), <<>>))
    /\ stackTop' = 1
    /\ frames' = Put(frames, 1, [closure |-> ClosureV(compile(Scripts[name]), <<>>),
                                 ip |-> 0, slots |-> 0])
    /\ frameCount' = 1
    /\ result' = "RUNNING"
    /\ pc' = "dispatch"
    /\ activation' = Put([i \in DOMAIN activation |->
                            [activation[i] EXCEPT !.live = FALSE]], 1,
                         [id |-> nextId, kind |-> "script", entryTop |-> 0,
                          argc |-> 0, arity |-> 0, below |-> <<>>, upw |-> {},
                          sank |-> FALSE, live |-> TRUE, returned |-> FALSE])
    /\ nextId' = nextId + 1
    /\ UNCHANGED <<globals, openUpvalues, panicStack, upvalueObjs, objects>>
    /\ UNCHANGED <<output, fault, attempts, command, frontVars, moduleVars, exitCode>>

\* main, `ry run <path>`: the file cannot be opened.
OpenFails ==
    /\ command = "run"
    /\ exitCode = NoExit
    /\ interpretCalls = 0
    /\ exitCode' = 1
    /\ UNCHANGED <<vmVars, pc, result, output, vmSource, interpretCalls, command, frontVars, moduleVars>>
    /\ UNCHANGED histVars

\* main returns: after interpret in `ry run <path>`, after "quit" or the end
\* of the input in the REPL.
MainReturns ==
    /\ exitCode = NoExit
    /\ \/ command = "run" /\ interpretCalls = 1
       \/ command = "repl"
    /\ result \in {"NONE", "INTERPRET_OK", "INTERPRET_RUNTIME_ERROR"}
    /\ exitCode' = 0
    /\ UNCHANGED <<vmVars, pc, result, output, vmSource, interpretCalls, command, frontVars, moduleVars>>
    /\ UNCHANGED histVars

(***************************************************************************)
(* Lexer::scanTokens on its own: the loop, one scanToken call per step.    *)
(***************************************************************************)
LexInit ==
    /\ Idle
    /\ command = "run"
    /\ lexer \in {Lexer(source) : source \in Sources}
    /\ repl = Repl
    /\ compiler = NoCompiler
    /\ emitter = NoEmitter

notLexer == <<vmVars, histVars, pc, result, output, vmSource, interpretCalls,
              command, exitCode, repl, compiler, emitter, moduleVars>>

ScanToken ==
    /\ ~lexer.returned
    /\ ~lexer.threw
    /\ ~isAtEnd(lexer)
    /\ lexer' = scanStep(lexer)
    /\ UNCHANGED notLexer

AddEof ==
    /\ ~lexer.returned
    /\ ~lexer.threw
    /\ isAtEnd(lexer)
    /\ lexer' = [addToken(lexer, "EOF_TOKEN") EXCEPT !.returned = TRUE]
    /\ UNCHANGED notLexer

LexNext == ScanToken \/ AddEof

LexSpec == LexInit /\ [][LexNext]_vars

(***************************************************************************)
(* main.cpp runREPL on its own: one turn of the loop per step.             *)
(***************************************************************************)
ReplInit ==
    /\ Idle
    /\ command = "repl"
    /\ lexer = Lexer(<<>>)
    /\ repl = Repl
    /\ compiler = NoCompiler
    /\ emitter = NoEmitter

notRepl == <<vmVars, histVars, pc, result, output, vmSource, interpretCalls,
             command, exitCode, lexer, compiler, emitter, moduleVars>>

\* std::getline fails: the input has ended.
EndOfInput ==
    /\ repl.running
    /\ repl' = [repl EXCEPT !.running = FALSE, !.did = "quit", !.appended = Nothing]
    /\ UNCHANGED notRepl

\* A line is read; change is what RyTools::countIndentation makes of it.
ReadLine(line, change, returns) ==
    /\ repl.running
    /\ Len(repl.buffer) < MaxBufferLines
    /\ repl' = turn(repl, line, change, returns)
    /\ UNCHANGED notRepl

ReplNext ==
    \/ EndOfInput
    \/ \E line \in Lines, change \in Changes, returns \in BOOLEAN :
           ReadLine(line, change, returns)

ReplSpec == ReplInit /\ [][ReplNext]_vars

(***************************************************************************)
(* Compiler::visitVariable, visitAssign and visitPostfix on their own: a   *)
(* compiler in the middle of a script meets the three expressions that     *)
(* name one identifier.                                                    *)
(***************************************************************************)
\* The identifiers: a declared local, an undeclared name, a native, a name
\* with a namespace in it, a name that begins with "native".
Identifiers == {"a", "g", "out"} \cup Scoped \cup NativePrefixed
LocalNames == {<<>>, <<"a">>}
Namespaces == {"", "ns"}

\* The compiler of the script inside a block that declares `locals`.
ScriptCompiler(junk, locals) ==
    addLocals(beginScope(addLocal(Compiler(junk), "(script)")), locals)
\* The compiler of a function body declared in that block.
BodyCompiler(junk, outer, locals) ==
    addLocals(addLocal(beginScope(SubCompiler(ScriptCompiler(junk, outer), 0)), ""),
              locals)
InNamespace(cs, namespace) ==
    SetCur(cs, [Cur(cs) EXCEPT !.currentNamespace = namespace])
Compilers ==
    {InNamespace(ScriptCompiler(junk, locals), namespace) :
        junk \in Junk, locals \in LocalNames, namespace \in Namespaces}
    \cup {InNamespace(BodyCompiler(junk, outer, locals), namespace) :
            junk \in Junk, outer \in LocalNames, locals \in LocalNames,
            namespace \in Namespaces}

\* The storage the instruction at the end of the code refers to: a slot of
\* the frame, a variable of an enclosing function, or a key of VM::globals.
Storage(cs) ==
    LET a == Cur(cs)
        op == a.code[Len(a.code) - 1]
        arg == a.code[Len(a.code)]
    IN  IF op \in {Op("OP_GET_LOCAL"), Op("OP_SET_LOCAL")}
        THEN [kind |-> "local", slot |-> arg]
        ELSE IF op \in {Op("OP_GET_UPVALUE"), Op("OP_SET_UPVALUE")}
        THEN [kind |-> "upvalue", of |-> a.upvalues[arg + 1]]
        ELSE IF op \in {Op("OP_GET_GLOBAL"), Op("OP_SET_GLOBAL")}
        THEN [kind |-> "global", key |-> a.constants[arg + 1].s]
        ELSE [kind |-> "none"]

ResolveInit ==
    /\ Idle
    /\ command = "run"
    /\ lexer = Lexer(<<>>)
    /\ repl = Repl
    /\ compiler \in {[NoCompiler EXCEPT !.cs = cs, !.name = name] :
                       cs \in Compilers, name \in Identifiers}
    /\ emitter = NoEmitter

notCompiler == <<vmVars, histVars, pc, result, output, vmSource, interpretCalls,
                 command, exitCode, lexer, repl, emitter, moduleVars>>

\* `name` is read.
VisitVariable ==
    /\ compiler.read = NotVisited
    /\ compiler' = [compiler EXCEPT !.read =
                       Storage(compileExpression(compiler.cs, Var(compiler.name)))]
    /\ UNCHANGED notCompiler

\* `name = 1`
VisitAssign ==
    /\ compiler.assign = NotVisited
    /\ compiler' = [compiler EXCEPT !.assign =
                       Storage(compileExpression(compiler.cs,
                                                 Assign(compiler.name, Num(1))))]
    /\ UNCHANGED notCompiler

\* `name++` or `name--`
VisitPostfix(type) ==
    /\ compiler.postfix = NotVisited
    /\ compiler' = [compiler EXCEPT !.postfix =
                       Storage(compileExpression(compiler.cs,
                                                 Postfix(Var(compiler.name), type)))]
    /\ UNCHANGED notCompiler

ResolveNext ==
    \/ VisitVariable
    \/ VisitAssign
    \/ \E type \in {"PLUS_PLUS", "MINUS_MINUS"} : VisitPostfix(type)

ResolveSpec == ResolveInit /\ [][ResolveNext]_vars

(***************************************************************************)
(* emitJump, patchJump and emitLoop on their own, followed by the VM        *)
(* executing the instruction they produced: the compiler emits a jump over *)
(* a body, or a loop back over one, and the VM is put at the instruction.  *)
(***************************************************************************)
UINT16_MAX == 65535
MaxPrefix == 2
MaxBody == 2
\* The lengths of the code jumped over: short ones, and the ones around the
\* largest offset an operand can hold.
BodyLengths ==
    (0..MaxBody) \cup {UINT16_MAX - k : k \in 0..(MaxBody + 1)} \cup {UINT16_MAX + 1}

\* n bytes of code, emitted by the statements in between.
emitBody(cs, n) ==
    SetCur(cs, [Cur(cs) EXCEPT
                  !.code = @ \o [i \in 1..n |-> Op("OP_NULL")],
                  !.lines = @ \o [i \in 1..n |-> Cur(cs).currentLine],
                  !.columns = @ \o [i \in 1..n |-> Cur(cs).currentColumn]])

\* The compiler after the calls made so far.
Applied(cs, call) ==
    CASE call.f = "emitBody" -> emitBody(cs, call.arg)
      [] call.f = "emitJump" -> emitJump(cs, call.arg)
      [] call.f = "patchJump" -> patchJump(cs, call.arg)
      [] call.f = "emitLoop" -> emitLoop(cs, call.arg)
RECURSIVE Replay(_, _)
Replay(cs, calls) ==
    IF calls = <<>> THEN cs ELSE Replay(Applied(cs, Head(calls)), Tail(calls))
Emitted(e) == Replay(Compiler(e.junk), e.calls)
Called(e, f, arg) == [e EXCEPT !.calls = Append(@, [f |-> f, arg |-> arg])]

\* FRAME.ip after VM::run has executed the jump instruction at ip, `top`
\* on top of the stack.
Landing(code, ip, top) ==
    IF code[ip + 1] = Op("OP_LOOP") THEN ip + 3 - ReadShort(code, ip)
    ELSE IF code[ip + 1] = Op("OP_JUMP_IF_FALSE") /\ isTruthy(top) THEN ip + 3
    ELSE ip + 3 + ReadShort(code, ip)

JumpInit ==
    /\ Idle
    /\ command = "run"
    /\ lexer = Lexer(<<>>)
    /\ repl = Repl
    /\ compiler = NoCompiler
    /\ emitter \in {[NoEmitter EXCEPT !.junk = junk,
                                      !.calls = <<[f |-> "emitBody", arg |-> n]>>,
                                      !.phase = "begin"] :
                       junk \in Junk, n \in 0..MaxPrefix}

notEmitter == <<vmVars, histVars, pc, result, output, vmSource, interpretCalls,
                command, exitCode, lexer, repl, compiler, moduleVars>>

\* int offset = emitJump(instruction);
EmitJump(instruction) ==
    /\ emitter.phase = "begin"
    /\ emitter' = [Called(emitter, "emitJump", instruction) EXCEPT
                      !.at = JumpOperand(Emitted(Called(emitter, "emitJump",
                                                        instruction))),
                      !.phase = "jump"]
    /\ UNCHANGED notEmitter

\* int loopStart = compilingChunk->code.size();
MarkLoop ==
    /\ emitter.phase = "begin"
    /\ emitter' = [emitter EXCEPT !.at = CodeSize(Emitted(emitter)),
                                  !.phase = "loop"]
    /\ UNCHANGED notEmitter

\* The code between the two calls.
EmitBody(n) ==
    /\ emitter.phase \in {"jump", "loop"}
    /\ emitter' = [Called(emitter, "emitBody", n) EXCEPT
                      !.phase = emitter.phase \o " body"]
    /\ UNCHANGED notEmitter

\* patchJump(offset): the jump is to land at the end of the chunk as it is.
PatchJump ==
    /\ emitter.phase = "jump body"
    /\ emitter' = [Called(emitter, "patchJump", emitter.at) EXCEPT
                      !.op = emitter.at - 1,
                      !.target = CodeSize(Emitted(emitter)),
                      !.phase = "ready"]
    /\ UNCHANGED notEmitter

\* emitLoop(loopStart)
EmitLoop ==
    /\ emitter.phase = "loop body"
    /\ emitter' = [Called(emitter, "emitLoop", emitter.at) EXCEPT
                      !.op = CodeSize(Emitted(emitter)),
                      !.target = emitter.at,
                      !.phase = "ready"]
    /\ UNCHANGED notEmitter

\* VM::run executes the instruction, the value of the condition on top.
Execute(condition) ==
    /\ emitter.phase = "ready"
    /\ emitter' = [emitter EXCEPT
                      !.ip = Landing(Cur(Emitted(emitter)).code, emitter.op,
                                     BoolV(condition)),
                      !.top = BoolV(condition),
                      !.phase = "executed"]
    /\ UNCHANGED notEmitter

JumpNext ==
    \/ \E instruction \in {"OP_JUMP", "OP_JUMP_IF_FALSE"} : EmitJump(instruction)
    \/ MarkLoop
    \/ \E n \in BodyLengths : EmitBody(n)
    \/ PatchJump
    \/ EmitLoop
    \/ \E condition \in BOOLEAN : Execute(condition)

JumpSpec == JumpInit /\ [][JumpNext]_vars

Next ==
    \/ \E name \in DOMAIN Scripts : Interpret(name)
    \/ OpenFails
    \/ MainReturns
    \/ StackCheck
    \/ FetchOutsideChunk
    \/ OP_POP
    \/ OP_NULL
    \/ OP_TRUE
    \/ OP_FALSE
    \/ OP_COPY
    \/ OP_NEGATE
    \/ OP_NOT
    \/ OP_CONSTANT
    \/ OP_ADD
    \/ OP_EQUAL
    \/ OP_LESS
    \/ OP_JUMP_IF_FALSE
    \/ OP_DIVIDE
    \/ OP_GET_LOCAL
    \/ OP_SET_LOCAL
    \/ OP_JUMP
    \/ OP_LOOP
    \/ OP_DEFINE_GLOBAL
    \/ OP_GET_GLOBAL
    \/ OP_SET_GLOBAL
    \/ OP_PANIC
    \/ TriggerPanic
    \/ OP_CALL
    \/ OP_RETURN
    \/ OP_FOR_EACH_NEXT
    \/ OP_BUILD_RANGE_LIST
    \/ OP_BUILD_LIST
    \/ OP_BUILD_MAP
    \/ OP_ATTEMPT
    \/ OP_END_ATTEMPT
    \/ OP_GET_INDEX
    \/ OP_GET_UPVALUE
    \/ OP_SET_UPVALUE
    \/ OP_CLOSURE
    \/ OP_CLASS
    \/ OP_INHERIT
    \/ OP_IMPORT
    \/ OP_METHOD
    \/ OP_GET_PROPERTY
    \/ OP_SET_INDEX
    \/ OP_SET_PROPERTY

Spec == Init /\ [][Next]_vars

\* The scripts whose loops skip an iteration.
Skipping == {"skipFor", "skipEach"}

\* VM::run goes on as long as the script has an instruction to execute; the
\* condition is stated for the scripts that skip.
FairSpec ==
    Spec /\ WF_vars(vmSource \in Skipping /\ result = "RUNNING" /\ Next)

(***************************************************************************)
(* Properties                                                              *)
(***************************************************************************)
Last(seq) == seq[Len(seq)]

\* C1: whenever interpret has returned INTERPRET_OK the value stack is empty
\* (stackTop == stack) and no frame is left (frameCount == 0).
C1_OkLeavesEmptyStack ==
    result = "INTERPRET_OK" => (stackTop = 0 /\ frameCount = 0)

\* The OP_RETURN about to execute ends a live activation that OP_CALL entered
\* through its closure branch.
ReturnsFromClosureCall ==
    /\ AtOp("OP_RETURN")
    /\ frameCount > 1
    /\ activation[frameCount].live
    /\ activation[frameCount].kind = "closure"

\* C2: the OP_RETURN matching an OP_CALL that entered a user closure with n
\* arguments leaves stackTop at its value before the call minus n, the value
\* the callee returned in the top slot, and every slot below the callee slot
\* as it was before the call.
C2_CallReturnBalance ==
    [][(ReturnsFromClosureCall /\ frameCount' = frameCount - 1) =>
         LET a == activation[frameCount]
         IN  /\ stackTop' = a.entryTop - a.argc
             /\ Slot(stack', stackTop' - 1) = Slot(stack, stackTop - 1)
             /\ \A i \in 1..Len(a.below) : Slot(stack', i - 1) = a.below[i]]_vars

\* The instruction about to execute meets one of the runtime errors.
TypeErrorDue ==
    /\ AtOp("OP_ADD")
    /\ LET b == Slot(stack, stackTop - 1)
           a == Slot(stack, stackTop - 2)
       IN  /\ a.kind \notin {"list", "string"}
           /\ b.kind # "string"
           /\ ~(a.kind = "number" /\ b.kind = "number")
UndefinedVariableDue ==
    /\ AtOp("OP_GET_GLOBAL") \/ AtOp("OP_SET_GLOBAL")
    /\ to_string(objects, READ_CONSTANT) \notin DOMAIN globals
OutOfBounds(object, index) ==
    /\ object.kind = "list"
    /\ index.kind = "number"
    /\ ~(index.n >= 0 /\ index.n < Len(objects[object.ref].elems))
IndexErrorDue ==
    \/ AtOp("OP_GET_INDEX")
         /\ OutOfBounds(Slot(stack, stackTop - 2), Slot(stack, stackTop - 1))
    \/ AtOp("OP_SET_INDEX")
         /\ OutOfBounds(Slot(stack, stackTop - 3), Slot(stack, stackTop - 2))
DivisionByZeroDue ==
    AtOp("OP_DIVIDE") /\ asNumber(Slot(stack, stackTop - 1)) = 0
Callee == Slot(stack, stackTop - 1 - Operand(1))
\* The callee runs in a frame of its own.
NeedsFrame(callee) ==
    \/ callee.kind \in {"closure", "function", "bound"}
    \/ callee.kind = "class" /\ "init" \in DOMAIN objects[callee.ref].methods
\* The arity a callee declares.
DeclaredArity(callee) ==
    CASE callee.kind \in {"closure", "function"} -> callee.fn.arity
      [] callee.kind = "bound" -> callee.method.fn.arity
      [] callee.kind = "native" -> callee.arity
      [] callee.kind = "class" ->
           IF "init" \in DOMAIN objects[callee.ref].methods
           THEN objects[callee.ref].methods["init"].fn.arity
           ELSE 0
HasArity(callee) ==
    callee.kind \in {"closure", "function", "bound", "native", "class"}
ArityMismatchDue ==
    /\ AtOp("OP_CALL")
    /\ HasArity(Callee)
    /\ Callee.kind # "native"
    /\ Operand(1) # DeclaredArity(Callee)
StackOverflowDue ==
    result = "RUNNING" /\ pc = "dispatch" /\ ~InStack(stackTop)
FrameOverflowDue ==
    /\ AtOp("OP_CALL")
    /\ NeedsFrame(Callee)
    /\ Operand(1) = DeclaredArity(Callee)
    /\ frameCount >= FRAMES_MAX
BadIteratorDue ==
    /\ AtOp("OP_FOR_EACH_NEXT")
    /\ Slot(stack, stackTop - 1).kind = "number"
    /\ Slot(stack, stackTop - 2).kind \notin {"range", "list"}
RuntimeErrorDue ==
    \/ TypeErrorDue
    \/ UndefinedVariableDue
    \/ IndexErrorDue
    \/ DivisionByZeroDue
    \/ ArityMismatchDue
    \/ StackOverflowDue
    \/ FrameOverflowDue
    \/ BadIteratorDue

\* The step resumes the handler of the innermost block.
HandlerResumed ==
    /\ result' = "RUNNING"
    /\ pc' = "dispatch"
    /\ panicStack' = SubSeq(panicStack, 1, Len(panicStack) - 1)
    /\ frameCount' = Last(panicStack).frameDepth
    /\ frames'[frameCount'].ip = Last(panicStack).handlerIP

\* C3: while an attempt block is active, an instruction that meets a runtime
\* error (type error, undefined variable, index out of bounds on read or
\* write, division by zero, arity mismatch, value-stack or frame overflow,
\* bad iterator) enters the panic protocol, and the panic protocol resumes the
\* innermost fail handler; the run neither ends nor goes on as if nothing
\* had happened.
C3_ErrorsReachTheHandler ==
    /\ [][(panicStack # <<>> /\ RuntimeErrorDue) =>
            (result' = "RUNNING" /\ pc' = "trigger_panic")]_vars
    /\ [][(result = "RUNNING" /\ pc = "trigger_panic" /\ panicStack # <<>>) =>
            HandlerResumed]_vars

\* C4: a panic raised while panicStack is empty makes interpret return
\* INTERPRET_RUNTIME_ERROR with an empty value stack and no frame, keeps every
\* global, and leaves the VM fit for the next interpret call: a closure the
\* failed script defined (bump, whose captured counter was 0) then counts as
\* a closure does, so that out(bump()) prints 1 and succeeds.
C4_UncaughtPanicLeavesVMUsable ==
    /\ [][(result = "RUNNING" /\ pc = "trigger_panic" /\ panicStack = <<>>) =>
            /\ result' = "INTERPRET_RUNTIME_ERROR"
            /\ stackTop' = 0
            /\ frameCount' = 0
            /\ \A g \in DOMAIN globals :
                 g \in DOMAIN globals' /\ globals'[g] = globals[g]]_vars
    /\ []((vmSource = "callBump" /\ "bump" \in DOMAIN globals /\ result # "RUNNING")
            => (result = "INTERPRET_OK" /\ output = <<"1">>))

\* C5: a panic raised while panicStack is not empty removes exactly the
\* topmost block, sets frameCount to its frameDepth and stackTop to its
\* stackDepth + 1 with the message in the top slot, leaves no open upvalue at
\* or above stackDepth and every slot below stackDepth as it was, and resumes
\* at handlerIP in the frame that executed the OP_ATTEMPT.
C5_CaughtPanicUnwinds ==
    [][(result = "RUNNING" /\ pc = "trigger_panic" /\ panicStack # <<>>) =>
         LET block == Last(panicStack)
             message == Slot(stack, stackTop - 1)
         IN  /\ panicStack' = SubSeq(panicStack, 1, Len(panicStack) - 1)
             /\ frameCount' = block.frameDepth
             /\ stackTop' = block.stackDepth + 1
             /\ Slot(stack', block.stackDepth) =
                  StrV(IF message.kind = "nil" THEN "Unknown Panic"
                       ELSE to_string(objects, message))
             /\ \A k \in 1..Len(openUpvalues') :
                  upvalueObjs'[openUpvalues'[k]].location < block.stackDepth
             /\ \A i \in 0..(block.stackDepth - 1) :
                  Slot(stack', i) = Slot(stack, i)
             /\ frames'[frameCount'].ip = block.handlerIP
             /\ activation[block.frameDepth].live
             /\ activation[block.frameDepth].id = Last(attempts).frame]_vars

\* Control is inside the attempt statement that pushed block k: the frame
\* that executed the OP_ATTEMPT is still there, at an instruction between the
\* OP_ATTEMPT and the OP_END_ATTEMPT.
InsideAttempt(k) ==
    /\ panicStack[k].frameDepth <= frameCount
    /\ activation[panicStack[k].frameDepth].id = attempts[k].frame
    /\ frames[panicStack[k].frameDepth].ip >= attempts[k].attemptIP + 3
    /\ frames[panicStack[k].frameDepth].ip <= panicStack[k].handlerIP - 4

\* C6: every block on panicStack belongs to an attempt statement control is
\* still inside: once control has left the statement, by whatever way, the
\* block is gone and panicStack has the size it had before the OP_ATTEMPT.
C6_BlocksLeaveWithTheirAttempt ==
    \A k \in 1..Len(panicStack) : InsideAttempt(k)

\* C7: stackTop stays within stack .. stack + 256 and nothing reads or writes
\* a value slot outside the array.
C7_StackStaysInArray ==
    /\ 0 <= stackTop
    /\ stackTop <= STACK_MAX
    /\ fault \notin {"value slot outside the stack array",
                     "native reads outside the stack array"}

\* C8: frameCount never exceeds 64, and a call that needs a 65th frame raises
\* a panic instead of writing frames[64].
C8_FramesStayInArray ==
    /\ [](frameCount <= FRAMES_MAX /\ fault # "frame written past the frames array")
    /\ [][FrameOverflowDue =>
            (result' = "RUNNING" /\ pc' = "trigger_panic"
               /\ frameCount' = frameCount)]_vars

\* C9: an OP_CALL of a closure, function, class with init or bound method
\* that raises the arity error leaves frameCount as it was.
C9_ArityCheckedBeforeFrame ==
    [][(/\ AtOp("OP_CALL")
        /\ NeedsFrame(Callee)
        /\ Operand(1) # DeclaredArity(Callee)
        /\ pc' = "trigger_panic") => frameCount' = frameCount]_vars

\* C10: an OP_CALL whose argument count differs from the arity its callee
\* declares (closure, function, class with or without init, bound method,
\* native) raises a panic, and nothing of the callee runs.
C10_ArityMismatchPanics ==
    [][(/\ AtOp("OP_CALL")
        /\ HasArity(Callee)
        /\ Operand(1) # DeclaredArity(Callee)) =>
         (result' = "RUNNING" /\ pc' = "trigger_panic" /\ output' = output)]_vars

(***************************************************************************)
(* Upvalues                                                                *)
(***************************************************************************)
\* The entries of a sequence, as a set.
Elems(seq) == {seq[i] : i \in 1..Len(seq)}

\* The list is strictly descending by location and holds open upvalues only.
SortedDescending(open, uobjs) ==
    /\ \A i \in 1..Len(open) : uobjs[open[i]].isOpen
    /\ \A i \in 1..(Len(open) - 1) :
          uobjs[open[i]].location > uobjs[open[i + 1]].location

\* The step ran closeUpvalues(stack + p) to its end: what is left on the list
\* is below p, and exactly the entries at or above p were closed, each over
\* the value its slot held.
ClosedFrom(p) ==
    /\ \A id \in Elems(openUpvalues') : upvalueObjs'[id].location < p
    /\ Elems(openUpvalues) \ Elems(openUpvalues') =
          {id \in Elems(openUpvalues) : upvalueObjs[id].location >= p}
    /\ \A id \in Elems(openUpvalues) \ Elems(openUpvalues') :
          /\ ~upvalueObjs'[id].isOpen
          /\ upvalueObjs'[id].closed = Slot(stack, upvalueObjs[id].location)
    /\ \A id \in Elems(openUpvalues') : upvalueObjs'[id] = upvalueObjs[id]

\* C11: openUpvalues is always strictly descending by location, and each
\* closeUpvalues(p) (in OP_RETURN with p the frame's slots, in a caught panic
\* with p the block's stack depth) leaves only entries below p and closes the
\* removed ones over the value their slot holds at that moment.
C11_OpenUpvaluesSorted ==
    /\ [](SortedDescending(openUpvalues, upvalueObjs))
    /\ [][(AtOp("OP_RETURN") /\ result' # "UNDEFINED")
            => ClosedFrom(FRAME.slots)]_vars
    /\ [][(result = "RUNNING" /\ pc = "trigger_panic" /\ panicStack # <<>>
            /\ result' # "UNDEFINED")
            => ClosedFrom(Last(panicStack).stackDepth)]_vars

\* A return has closed three upvalues that were captured out of slot order
\* and has left the caller's upvalue on the list.
C11_Witness ==
    /\ Len(openUpvalues) = 1
    /\ Cardinality({id \in DOMAIN upvalueObjs :
                       /\ ~upvalueObjs[id].isOpen
                       /\ upvalueObjs[id].closed.kind = "number"}) = 3

\* The scripts that make a counter closure over a local that starts at 0 and
\* print two calls of it after the defining frame has returned.
CounterScripts == {"counter", "blockCounter"}

\* C12: a closure captures a local of the enclosing function by reference.
\* Closures over the same variable share it (in "shared" the write made by
\* incX is what getX reads, before and after mk has returned), and a counter
\* closure called twice after its defining frame has returned yields 1, 2.
C12_CapturedByReference ==
    (interpretCalls = 1 /\ result = "INTERPRET_OK") =>
        /\ vmSource \in CounterScripts => output = <<"1", "2">>
        /\ vmSource = "shared" => output = <<"1", "2", "10">>

\* C13: an upvalue is open only while its slot is live (every entry of
\* openUpvalues points below stackTop), and a closure keeps the last value of
\* a captured local that went out of scope: "blockCapture" prints the 1 that
\* x held when its block ended.
C13_OpenWhileSlotLive ==
    /\ \A id \in Elems(openUpvalues) : upvalueObjs[id].location < stackTop
    /\ (vmSource = "blockCapture" /\ interpretCalls = 1
           /\ result = "INTERPRET_OK") => output = <<"1">>

(***************************************************************************)
(* Loops                                                                   *)
(***************************************************************************)
\* OP_FOR_EACH_NEXT is about to run with a number as its index.
AtEach ==
    /\ AtOp("OP_FOR_EACH_NEXT")
    /\ InStack(stackTop - 2)
    /\ Slot(stack, stackTop - 1).kind = "number"
EachIndex == Slot(stack, stackTop - 1).n
EachCollection == Slot(stack, stackTop - 2)

\* The step starts the iteration over v: the index is bumped, v is pushed as
\* the loop variable and the body is next.
Iterates(v) ==
    /\ stackTop' = stackTop + 1
    /\ Slot(stack', stackTop) = v
    /\ Slot(stack', stackTop - 1) = NumV(EachIndex + 1)
    /\ \A i \in 0..(stackTop - 2) : Slot(stack', i) = Slot(stack, i)
    /\ frames'[frameCount'].ip = FRAME.ip + 3
    /\ frameCount' = frameCount

\* The step leaves the loop: it lands on the two OP_POP that drop the index
\* and the collection, which brings the stack to its depth before the loop.
LeavesLoop ==
    /\ stackTop' = stackTop
    /\ stack' = stack
    /\ frameCount' = frameCount
    /\ frames'[frameCount'].ip = FRAME.ip + 3 + READ_SHORT
    /\ Code[FRAME.ip + 3 + READ_SHORT + 1] = Op("OP_POP")
    /\ Code[FRAME.ip + 3 + READ_SHORT + 2] = Op("OP_POP")

\* C14: over a range start <= end the k-th iteration (k from 0) runs with
\* the loop variable start + k as long as k < end - start, over a list as
\* long as k < its length with the k-th element, and the loop is then left
\* with the index and the collection popped; "eachFn" runs four loops between
\* two locals and prints 2 3 4, 7 8 9, nothing, nothing, then a + b and b.
C14_EachAscending ==
    /\ [][(AtEach /\ EachCollection.kind = "range"
              /\ EachCollection.start <= EachCollection.end /\ EachIndex >= 0) =>
            IF EachIndex < EachCollection.end - EachCollection.start
            THEN Iterates(NumV(EachCollection.start + EachIndex))
            ELSE LeavesLoop]_vars
    /\ [][(AtEach /\ EachCollection.kind = "list" /\ EachIndex >= 0) =>
            IF EachIndex < Len(objects[EachCollection.ref].elems)
            THEN Iterates(objects[EachCollection.ref].elems[EachIndex + 1])
            ELSE LeavesLoop]_vars
    /\ []((vmSource = "eachFn" /\ interpretCalls = 1 /\ result = "INTERPRET_OK")
            => output = <<"2", "3", "4", "7", "8", "9", "11", "6">>)

\* Both kinds of loop have run to their end inside a function.
C14_Witness ==
    /\ vmSource = "eachFn"
    /\ result = "INTERPRET_OK"
    /\ Len(output) = 8

\* C15: over a range start > end the k-th iteration runs with the loop
\* variable start - k as long as start - k > end, and the loop is then left.
C15_EachDescending ==
    [][(AtEach /\ EachCollection.kind = "range"
          /\ EachCollection.start > EachCollection.end /\ EachIndex >= 0) =>
        IF EachCollection.start - EachIndex > EachCollection.end
        THEN Iterates(NumV(EachCollection.start - EachIndex))
        ELSE LeavesLoop]_vars

\* The offset of the first OP_FOR_EACH_NEXT of a chunk: its outermost loop.
FirstEach(code) ==
    (CHOOSE i \in 1..Len(code) :
        /\ code[i] = Op("OP_FOR_EACH_NEXT")
        /\ \A j \in 1..(i - 1) : code[j] # Op("OP_FOR_EACH_NEXT")) - 1

\* The script frame is at the OP_FOR_EACH_NEXT of its outer loop.
AtOuterEach ==
    /\ AtOp("OP_FOR_EACH_NEXT")
    /\ frameCount = 1
    /\ FRAME.ip = FirstEach(Code)

\* C16: a stop in the body of an inner each loop, inside an if block, ends
\* that loop only.  In the README example every iteration of the outer loop
\* starts at the same stack depth (script, collection, index), the outer
\* index counts 0, 1, 2 over the range 1 to 3, and the script prints 1 - 10,
\* 1 - 11, 2 - 10, 2 - 11 and goes on after the loops.
C16_StopEndsInnerLoop ==
    /\ (vmSource = "readme" /\ interpretCalls = 1 /\ AtOuterEach) =>
          /\ stackTop = 3
          /\ Slot(stack, 1) = RangeV(1, 3)
          /\ Slot(stack, 2) \in {NumV(0), NumV(1), NumV(2)}
    /\ (vmSource = "readme" /\ interpretCalls = 1 /\ result # "RUNNING") =>
          /\ result = "INTERPRET_OK"
          /\ output = <<"1 - 10", "1 - 11", "2 - 10", "2 - 11", "end">>

\* The outer loop is at its last test, after the inner loop was stopped twice.
C16_Witness ==
    /\ vmSource = "readme"
    /\ AtOuterEach
    /\ Slot(stack, 2) = NumV(2)
    /\ output = <<"1 - 10", "1 - 11", "2 - 10", "2 - 11">>

\* C17: the jump a stop emits inside a while or for loop is patched when the
\* loop has been compiled: no OP_JUMP is executed with its target outside the
\* chunk, "whileStop" leaves its loop at i = 2 and prints 2, "forStop" leaves
\* its loop in the first iteration and prints 0 and after.
C17_StopLeavesWhileAndFor ==
    /\ AtOp("OP_JUMP") => FRAME.ip + 3 + READ_SHORT < Len(Code)
    /\ (vmSource = "whileStop" /\ interpretCalls = 1 /\ result # "RUNNING") =>
          (result = "INTERPRET_OK" /\ output = <<"2">>)
    /\ (vmSource = "forStop" /\ interpretCalls = 1 /\ result # "RUNNING") =>
          (result = "INTERPRET_OK" /\ output = <<"0", "after">>)

(***************************************************************************)
(* The driver                                                              *)
(***************************************************************************)
\* RyTools::hadError once main.cpp's interpret has compiled the script.
hadError ==
    vmSource # "" /\ \E junk \in Junk : compiled(Scripts[vmSource], junk).hadError
\* The compiler reported an error while it compiled the script.
CompileErrorReported ==
    vmSource # "" /\ \E junk \in Junk : compiled(Scripts[vmSource], junk).reported

\* C18: when the compiler has reported an error, the flag is still set once
\* compilation has ended and the VM does not run the chunk: nothing is
\* interpreted and nothing is printed.
C18_CompileErrorStopsTheRun ==
    (interpretCalls = 1 /\ CompileErrorReported) =>
        /\ hadError
        /\ result \notin {"RUNNING", "INTERPRET_OK", "INTERPRET_RUNTIME_ERROR",
                          "UNDEFINED", "EXIT"}
        /\ output = <<>>

\* The script of `ry run <path>` ran without an unrecovered panic.
ScriptSucceeded == interpretCalls = 1 /\ result = "INTERPRET_OK"
\* The script of `ry run <path>` ended in a panic no attempt block caught.
UnrecoveredPanic == interpretCalls = 1 /\ result = "INTERPRET_RUNTIME_ERROR"
FileNotOpened == interpretCalls = 0

\* C19: the process started as `ry run <path>` ends with status 0 when the
\* script succeeded, and with a status other than 0 when the script ended in
\* an unrecovered panic or the file could not be opened.
C19_ExitCodeTellsTheOutcome ==
    (command = "run" /\ exitCode # NoExit /\ result # "EXIT") =>
        /\ ScriptSucceeded => exitCode = 0
        /\ UnrecoveredPanic => exitCode # 0
        /\ FileNotOpened => exitCode # 0

(***************************************************************************)
(* Classes                                                                 *)
(***************************************************************************)
CallsClassWithInit ==
    /\ AtOp("OP_CALL")
    /\ Callee.kind = "class"
    /\ "init" \in DOMAIN objects[Callee.ref].methods
    /\ Operand(1) = DeclaredArity(Callee)
CallsBoundMethod ==
    /\ AtOp("OP_CALL")
    /\ Callee.kind = "bound"
    /\ Operand(1) = DeclaredArity(Callee)
\* init, entered by the call of its class, returns.
InitReturns ==
    /\ AtOp("OP_RETURN")
    /\ frameCount > 1
    /\ activation[frameCount].kind = "init"
\* Slot 0 of the frame just entered.
EnteredSlot0 == Slot(stack', frames'[frameCount'].slots)
\* OP_GET_PROPERTY asks the instance on top of the stack for a field it has.
ReadsField ==
    /\ AtOp("OP_GET_PROPERTY")
    /\ Slot(stack, stackTop - 1).kind = "instance"
    /\ to_string(objects, READ_CONSTANT)
           \in DOMAIN objects[Slot(stack, stackTop - 1).ref].fields
FieldRead ==
    /\ stackTop' = stackTop
    /\ Slot(stack', stackTop - 1) =
           objects[Slot(stack, stackTop - 1).ref].fields[to_string(objects, READ_CONSTANT)]
Done(name) == vmSource = name /\ interpretCalls = 1 /\ result # "RUNNING"
ClassCallsBindThis ==
    /\ [][(CallsClassWithInit /\ result' = "RUNNING") =>
            /\ frameCount' = frameCount + 1
            /\ frames'[frameCount'].closure = objects[Callee.ref].methods["init"]
            /\ frames'[frameCount'].slots = stackTop - 1 - Operand(1)
            /\ EnteredSlot0 = InstanceV(Len(objects) + 1)
            /\ objects'[Len(objects) + 1].klass = Callee.ref]_vars
    /\ [][(InitReturns /\ result' = "RUNNING") =>
            /\ Slot(stack, FRAME.slots).kind = "instance"
            /\ stackTop' = FRAME.slots + 1
            /\ Slot(stack', FRAME.slots) = Slot(stack, FRAME.slots)]_vars
    /\ [][(CallsBoundMethod /\ result' = "RUNNING") =>
            /\ frameCount' = frameCount + 1
            /\ frames'[frameCount'].closure = Callee.method
            /\ EnteredSlot0 = Callee.receiver]_vars
    /\ []((Done("classes") \/ Done("initReturns")) =>
            (result = "INTERPRET_OK" /\ output = <<"7">>))

\* C20: calling a class with an init method runs init with slot 0
\* bound to the new instance and yields that instance whatever init returns,
\* a method taken from an instance runs with slot 0 bound to its receiver,
\* and every field written through this in init is read back by a later
\* method call.
C20_FieldsOfThisAreReadBack ==
    /\ ClassCallsBindThis
    /\ [][(ReadsField /\ result' = "RUNNING") => FieldRead]_vars
    /\ [](Done("fieldLen") => (result = "INTERPRET_OK" /\ output = <<"7">>))

\* At OP_INHERIT the class being declared is below the value of the
\* superclass expression: the compiler emits OP_GET_GLOBAL for the class and
\* then the expression.
DeclaredClass == Slot(stack, stackTop - 2)
SuperclassExpr == Slot(stack, stackTop - 1)

\* C21: executing `class B childof A` makes B.superclass refer to A, leaves
\* A.superclass as it was and pops only the superclass value, so that B is on
\* top for the following OP_METHOD; a superclass expression that is no class
\* raises the panic "Superclass must be a class.".
C21_InheritSetsSuperclass ==
    [][AtOp("OP_INHERIT") =>
        IF SuperclassExpr.kind = "class"
        THEN /\ result' = "RUNNING"
             /\ objects'[DeclaredClass.ref].superclass = SuperclassExpr.ref
             /\ objects'[SuperclassExpr.ref].superclass =
                    objects[SuperclassExpr.ref].superclass
             /\ stackTop' = stackTop - 1
             /\ Slot(stack', stackTop' - 1) = DeclaredClass
        ELSE /\ result' = "RUNNING"
             /\ pc' = "trigger_panic"
             /\ Slot(stack', stackTop' - 1) = StrV("Superclass must be a class.")]_vars

\* The statements of the running function whose code ends at the instruction
\* pointer: the statement before it has run to normal completion.
EndsHere == {e \in FRAME.closure.fn.ends : e[1] = FRAME.ip}
AfterStatement ==
    /\ result = "RUNNING"
    /\ pc = "dispatch"
    /\ frameCount > 0
    /\ EndsHere # {}

\* C22: after a statement has run to normal completion the stack depth above
\* the frame base equals the number of compiler locals in scope at that
\* point.
C22_StackBalancedPerStatement ==
    AfterStatement => \A e \in EndsHere : stackTop - FRAME.slots = e[2]

\* The tables of every chunk compiled for the script, main chunk included.
Chunks(junk) ==
    LET cs == compiled(Scripts[vmSource], junk)
    IN  cs.chunks \cup {Tables(Cur(cs))}
JustCompiled == interpretCalls = 1 /\ frameCount = 1 /\ FRAME.ip = 0

\* C23: in every chunk the compiler produces lines, columns and code have
\* the same length and no entry of lines or columns is negative, also for
\* the bytes emitted before any token has been tracked.
C23_PositionsOfEveryByte ==
    JustCompiled =>
        \A junk \in Junk : \A chunk \in Chunks(junk) :
            /\ Len(chunk.lines) = Len(chunk.code)
            /\ Len(chunk.columns) = Len(chunk.code)
            /\ \A i \in 1..Len(chunk.code) :
                   chunk.lines[i] >= 0 /\ chunk.columns[i] >= 0

(***************************************************************************)
(* Lexer: positions of tokens                                              *)
(***************************************************************************)
\* The line and the 1-based column of the character at index `at` of source.
LineOf(source, at) == 1 + Cardinality({i \in 1..at : source[i] = "\n"})
ColumnOf(source, at) ==
    LET newlines == {i \in 1..at : source[i] = "\n"}
        lineStart == IF newlines = {} THEN 0
                     ELSE CHOOSE i \in newlines : \A j \in newlines : j <= i
    IN  at + 1 - lineStart

HasFirstCharacter(token) == token.type # "EOF_TOKEN"

\* C24: every token that has a first character records the line and the
\* 1-based column of that character, a line being what follows a newline:
\* this includes the tokens made for an interpolated or multi-line string
\* and the tokens after it.
C24_TokensRecordTheirFirstCharacter ==
    \A i \in DOMAIN lexer.tokens :
        LET token == lexer.tokens[i]
        IN  HasFirstCharacter(token) =>
              /\ token.line = LineOf(lexer.source, token.at)
              /\ token.column = ColumnOf(lexer.source, token.at)

(***************************************************************************)
(* Interpolated strings                                                    *)
(***************************************************************************)
\* The literal segments and interpolated names of a string literal, in
\* source order.
Segments(source) ==
    SelectSeq(scanTokens(source), LAMBDA token : token.type \in {"STRING", "IDENTIFIER"})

\* The string form of a segment: its text, or to_string of the variable.
Shown(token) ==
    IF token.type = "STRING" THEN Text(token.lexeme)
    ELSE to_string(objects, globals[Text(token.lexeme)])

RECURSIVE Concatenation(_)
Concatenation(segments) ==
    IF segments = <<>> THEN ""
    ELSE Shown(Head(segments)) \o Concatenation(Tail(segments))

\* C25: a script that prints one string literal with interpolations prints
\* the concatenation, in source order, of the literal's segments and the
\* string forms of the interpolated variables, whatever the arrangement of
\* the segments and the kinds of the values.
C25_InterpolationConcatenates ==
    \A name \in DOMAIN Interpolated :
        Done(name) => output = << Concatenation(Segments(Interpolated[name])) >>

(***************************************************************************)
(* Lexer: termination                                                      *)
(***************************************************************************)
EofTokens == {i \in DOMAIN lexer.tokens : lexer.tokens[i].type = "EOF_TOKEN"}

\* A step of the scanTokens loop that runs scanToken.
ScanTokenCalled == lexer'.calls > lexer.calls

\* C26: on every source text each scanToken call consumes at least one
\* character and none reads past the end of the text, so the loop makes at
\* most as many calls as the text has characters; no call leaves the loop
\* other than by returning to it; what scanTokens returns ends with an EOF
\* token that is the only one, and no EOF token is added before it returns.
C26_ScanTokensEndsWithOneEof ==
    /\ [][ScanTokenCalled => lexer'.current > lexer.current]_vars
    /\ [](~lexer.threw)
    /\ [](lexer.calls <= lexer.current /\ lexer.current <= Len(lexer.source))
    /\ [](IF lexer.returned
          THEN EofTokens = {Len(lexer.tokens)} /\ isAtEnd(lexer)
          ELSE EofTokens = {})

(***************************************************************************)
(* Imports                                                                 *)
(***************************************************************************)
ModuleFrames == {i \in DOMAIN activation : activation[i].kind = "module"}

\* The frame that executed the OP_IMPORT of module frame i is the running
\* frame again.
ImporterGoesOn(i) ==
    /\ result = "RUNNING"
    /\ i > 1
    /\ frameCount = i - 1
    /\ activation[i - 1].live
    /\ activation[i - 1].id = activation[i].importer

\* The OP_RETURN at the end of a module body is executing.
ModuleReturns ==
    /\ AtOp("OP_RETURN")
    /\ frameCount > 1
    /\ activation[frameCount].kind = "module"
    /\ activation[frameCount].live
    /\ frameCount' = frameCount - 1

\* The instruction the running frame executes next, after the step.
NextOp == frames'[frameCount'].closure.fn.code[frames'[frameCount'].ip + 1]

\* C27: a module path is compiled at most once and its cached closure is
\* never replaced; whenever the importing frame runs again after an import,
\* first or repeated, the module body has returned, and no import fails to
\* get a frame; when the body returns the stack top is where OP_IMPORT
\* found it and the OP_POP of the import statement is next, so the
\* statement leaves the importer's stack as deep as it found it.
C27_ImportRunsModuleOnce ==
    /\ [](\A path \in DOMAIN Modules : compilations[path] <= 1)
    /\ [][\A path \in DOMAIN moduleCache :
            /\ path \in DOMAIN moduleCache'
            /\ moduleCache'[path] = moduleCache[path]]_vars
    /\ [](\A i \in ModuleFrames : ImporterGoesOn(i) => activation[i].returned)
    /\ [](fault # "import frame written past the frames array")
    /\ [][ModuleReturns =>
            /\ stackTop' = activation[frameCount].entryTop
            /\ NextOp = Op("OP_POP")]_vars

(***************************************************************************)
(* Constants of a chunk                                                    *)
(***************************************************************************)
\* The compiler added a constant at an index above 255 to some chunk of the
\* script.
TooManyConstants ==
    vmSource # "" /\ \E junk \in Junk : \E chunk \in Chunks(junk) :
        Len(chunk.constants) > UINT8_MAX + 1

\* C28: when a chunk of the script got a constant at an index above 255, a
\* compile error is recorded and the VM does not run the script; so in every
\* chunk of a script the VM runs, each operand emitted for a constant is the
\* index of a constant with the value it was created for.
C28_ConstantOperandsReferToTheirConstant ==
    /\ (interpretCalls = 1 /\ TooManyConstants) =>
          /\ hadError
          /\ result \notin {"RUNNING", "INTERPRET_OK", "INTERPRET_RUNTIME_ERROR",
                            "UNDEFINED", "EXIT"}
    /\ JustCompiled =>
          \A junk \in Junk : \A chunk \in Chunks(junk) :
              \A operand \in chunk.operands :
                  chunk.constants[chunk.code[operand.offset + 1] + 1] = operand.value

Prompting == repl.running
Appended == repl.appended # Nothing
Submitted == repl.did \in {"submit", "interpret"}

\* C29: in the REPL loop the indent level is never negative at a prompt; the
\* buffer is handed to interpret exactly when, after a line is appended, the
\* indent level is <= 0; and after a submission, `clear` or `!!` the buffer is
\* empty and the indent level is 0.
C29_ReplSubmitsAtIndentZero ==
    /\ Prompting => repl.indentLevel >= 0
    /\ Submitted <=> (Appended /\ repl.appended.indentLevel <= 0)
    /\ Appended => /\ repl.appended.buffer # <<>>
                   /\ repl.appended.buffer # <<"">>
    /\ (Prompting /\ repl.did \in {"submit", "clear", "abort"}) =>
           repl.buffer = <<>> /\ repl.indentLevel = 0

\* A buffer of three lines is submitted when the last line takes the indent
\* level below zero.
C29_SubmittedBelowZero ==
    /\ repl.did = "submit"
    /\ Len(repl.appended.buffer) = MaxBufferLines
    /\ repl.appended.indentLevel < 0
    /\ repl.buffer = <<>>

\* C30: at every OP_CLOSURE the VM executes, of a function declaration and
\* of a class method alike, the upvalueCount of the function constant it reads
\* is the number of (isLocal, index) pairs that follow the instruction, so
\* the step leaves ip at the next opcode with every upvalue slot filled.
C30_ClosurePairsMatchUpvalueCount ==
    AtOp("OP_CLOSURE") =>
        /\ READ_CONSTANT.kind = "function"
        /\ READ_CONSTANT.fn.upvalueCount = READ_CONSTANT.fn.pairs


\* C31: reading an identifier, assigning to it and applying postfix ++ or --
\* to it resolve it to the same storage: the local slot if a local of that
\* name is in scope, else the captured variable of an enclosing function, else
\* one and the same key of the globals.
C31_OneStoragePerIdentifier ==
    /\ compiler.read # NotVisited /\ compiler.assign # NotVisited
           => compiler.assign = compiler.read
    /\ compiler.read # NotVisited /\ compiler.postfix # NotVisited
           => compiler.postfix = compiler.read

\* The OP_SET_INDEX about to execute writes a list at an index outside
\* 0..len-1.
SetIndexOutOfBounds ==
    /\ AtOp("OP_SET_INDEX")
    /\ stackTop >= 3
    /\ Slot(stack, stackTop - 3).kind = "list"
    /\ Slot(stack, stackTop - 2).kind = "number"
    /\ \/ Slot(stack, stackTop - 2).n < 0
       \/ Slot(stack, stackTop - 2).n >=
              Len(objects[Slot(stack, stackTop - 3).ref].elems)

\* C32: OP_SET_INDEX on a list with an index outside 0..len-1 raises a panic
\* the protocol can recover from and leaves the list as it was, as
\* OP_GET_INDEX does.
C32_SetIndexOutOfBoundsPanics ==
    [][SetIndexOutOfBounds =>
         /\ pc' = "trigger_panic"
         /\ result' = "RUNNING"
         /\ objects' = objects]_vars

\* The OP_SET_INDEX about to execute has an object of that kind.
SetIndexOn(kind) ==
    /\ AtOp("OP_SET_INDEX")
    /\ stackTop >= 3
    /\ Slot(stack, stackTop - 3).kind = kind

\* C33: OP_SET_INDEX on a map stores the value under the key, whatever its
\* kind, so that OP_GET_INDEX with an equal key finds it; on a string it
\* raises a panic and changes nothing.
C33_SetIndexStoresInMaps ==
    [][/\ SetIndexOn("map") =>
            LET entries == objects'[Slot(stack, stackTop - 3).ref].entries
                at == find(entries, Slot(stack, stackTop - 2))
            IN  /\ pc' = "dispatch"
                /\ at # 0
                /\ entries[at].value = Slot(stack, stackTop - 1)
       /\ SetIndexOn("string") =>
            /\ pc' = "trigger_panic"
            /\ objects' = objects
            /\ globals' = globals]_vars

\* C34: a method defined only in the superclass is found and called on an
\* instance of the subclass: `class A { func hello() { return 1 } }
\* class B childof A {}` followed by out(B().hello()) prints 1.
C34_SubclassInstancesInheritMethods ==
    Done("inheritedMethod") => (result = "INTERPRET_OK" /\ output = <<"1">>)

\* The OP_CALL about to execute is the call of `x.pop()`: the native that
\* OP_GET_PROPERTY pushed is the callee, and the receiver below it is a list
\* that is not empty.
Receiver == Slot(stack, stackTop - 2)
CallsPop ==
    /\ AtOp("OP_CALL")
    /\ Operand(1) = 0
    /\ stackTop >= 2
    /\ Slot(stack, stackTop - 1) = NativeV("pop", 0)
    /\ Receiver.kind = "list"
    /\ objects[Receiver.ref].elems # <<>>

\* C35: `x.pop()` on a list that is not empty removes the last element of
\* the receiver and of no other list, and leaves one value, the element
\* removed, where the receiver was: the receiver is off the stack.
C35_PopReplacesTheReceiver ==
    [][CallsPop =>
         LET elems == objects[Receiver.ref].elems
         IN  /\ objects' = [objects EXCEPT ![Receiver.ref].elems =
                                SubSeq(elems, 1, Len(elems) - 1)]
             /\ stackTop' = stackTop - 1
             /\ Slot(stack', stackTop' - 1) = elems[Len(elems)]]_vars

\* The instruction executed was a jump taken: not an OP_JUMP_IF_FALSE that
\* met a truthy condition.
JumpTaken ==
    /\ emitter.phase = "executed"
    /\ \/ Cur(Emitted(emitter)).code[emitter.op + 1] # Op("OP_JUMP_IF_FALSE")
       \/ ~isTruthy(emitter.top)

\* C36: executing the jump of an emitJump/patchJump pair sets ip to the size
\* the code had when patchJump ran, and executing the OP_LOOP of
\* emitLoop(loopStart) sets ip to loopStart.
C36_JumpsLandWhereTheCompilerAimed ==
    JumpTaken => emitter.ip = emitter.target

\* A panic is about to be delivered.
Panicking == result = "RUNNING" /\ pc = "trigger_panic"

\* C37: attempt blocks nest as a stack.  A panic is delivered to the fail
\* block of the innermost attempt whose body control is inside, which is
\* taken off the stack while the blocks around it stay: a panic raised in a
\* fail block goes to the next attempt around it, and a panic with no
\* attempt around it is uncaught.
C37_PanicsGoToTheInnermostAttempt ==
    [][Panicking =>
         IF \E k \in 1..Len(panicStack) : InsideAttempt(k)
         THEN /\ InsideAttempt(Len(panicStack))
              /\ panicStack' = SubSeq(panicStack, 1, Len(panicStack) - 1)
              /\ frameCount' = Last(panicStack).frameDepth
              /\ frames'[frameCount'].ip = Last(panicStack).handlerIP
         ELSE result' # "RUNNING"]_vars

\* Block k refers to a frame that is there, to a stack depth not above the
\* top, and to a handler inside the chunk of that frame.
LiveContext(k) ==
    /\ panicStack[k].frameDepth <= frameCount
    /\ panicStack[k].stackDepth <= stackTop
    /\ panicStack[k].handlerIP >= 0
    /\ panicStack[k].handlerIP <
           Len(frames[panicStack[k].frameDepth].closure.fn.code)

\* C38: every block on panicStack refers to a live context, and panicStack
\* is empty whenever interpret starts and whenever it has returned.
C38_ControlBlocksAreLive ==
    /\ result = "RUNNING" => \A k \in 1..Len(panicStack) : LiveContext(k)
    /\ result \in {"NONE", "INTERPRET_OK", "INTERPRET_RUNTIME_ERROR"}
          => panicStack = <<>>

\* C39: the value OP_NOT leaves for v is truthy exactly when v is falsey:
\* nil, false or the number zero.
C39_NotAgreesWithTruthiness ==
    [][(AtOp("OP_NOT") /\ stackTop >= 1) =>
          (isTruthy(Slot(stack', stackTop' - 1)) <=>
             ~isTruthy(Slot(stack, stackTop - 1)))]_vars

\* C40: in a for loop with an increment a skip in the body ends the
\* iteration and the increment runs before the condition is tested again, so
\* `for (data j = 0; j < 3; j++) { if j == 1 { skip }  out(j) }`
\* comes to its end.
C40_SkipRunsTheIncrement ==
    (vmSource = "skipFor" /\ result = "RUNNING") ~> (result # "RUNNING")
====
